---- MODULE Spec2Model ----
(***************************************************************************)
(* State-machine model of the OmniLaTeX build entry point (src/build.py):  *)
(* CommandRunner.run, BuildTasks.build_example and BuildTasks.build_tex,   *)
(* together with the progress tracker they drive.                          *)
(*                                                                         *)
(* A run handles the list `files` one entry after the other.  The          *)
(* environment of a unit (its directory, the compiler, the file system)    *)
(* is fixed per unit by `kind`; the exit status of a compiler process is   *)
(* chosen when the process ends.                                           *)
(***************************************************************************)
EXTENDS Integers, Sequences, FiniteSets, TLC

\* Number of unit names known to a run; a run's list holds each at most once.
NumUnits == 3

Names == 1..NumUnits

NoName == 0

\* ------------------------------------------------------------------------
\* Environment of one unit.  Each kind fixes what the file system and the
\* compiler do for that unit:
\*   nodir     examples/<name> does not exist
\*   notex     examples/<name>/main.tex does not exist
\*   setupErr  chdir into the unit or mkdir of a cache directory raises OSError
\*   runRaise  subprocess.run raises an OSError other than FileNotFoundError
\*             (the program is found but cannot be started)
\*   nopdf     main.pdf is absent after the invocation
\*   pdf       main.pdf is present after the invocation, the copy succeeds
\*   copyFail  main.pdf is present after the invocation, shutil.copy raises
\* ------------------------------------------------------------------------
Kinds == {"nodir", "notex", "setupErr", "runRaise", "nopdf", "pdf", "copyFail"}

\* build_tex probes only the existence of the source and runs the compiler.
TexKinds == {"notex", "runRaise", "pdf"}

VARIABLES
    command,            \* handler chosen by main(): "build_example" | "build_tex"
    files,              \* the list given to the handler
    verbose,            \* runner.verbose
    examplesDir,        \* Path("examples").exists()
    kind,               \* environment of each unit
    pc,                 \* position of the handler
    i,                  \* index into files of the unit being handled
    invokeBound,        \* the local `invoke` of build_example is bound
    successful_builds,  \* the counter of both handlers
    progress_bar,       \* the tracker, or NoBar
    procs,              \* units whose compiler process is alive
    exitCode,           \* how the last invocation ended
    exc,                \* exception in flight
    excFrom,            \* where the exception in flight was raised
    outcome,            \* per unit: what the UI reported for it
    unitErrors,         \* error lines the UI printed while handling the current unit
    outDir,             \* units whose build/examples/<name>.pdf was written
    tally,              \* the final "X/Y" line, or NoTally
    completions,        \* the units whose handling has ended, in that order
    cacheDirs,          \* units whose _minted and svg-inkscape directories exist
    cwd,                \* working directory of the process
    prev_cwd            \* the directory working_directory returns to

\* The assembly of one compiler call: build_example's command line and
\* overrides, and the environment CommandRunner.run hands to the child.
VARIABLES
    ambient,            \* os.environ of the build process
    build_mode,         \* runner.build_mode
    rootRcExists,       \* <repo>/.latexmkrc exists
    localRcExists,      \* <unit>/.latexmkrc exists
    exampleName,        \* the unit the call is assembled for
    ipc,                \* "start" | "assembled" | "merged"
    invoke,             \* the command line
    extra_env,          \* the overrides passed to run
    childEnv            \* the env= argument of subprocess.run

\* The class bound to the name tqdm when the module was imported.
VARIABLES
    barClass            \* "tqdm" | "SimpleProgressBar"

\* A second call of the handler over the same tree.
VARIABLES
    runNo,              \* 1 for the first call, 2 for the second
    firstOutcome        \* what the first call reported per unit

buildVars == <<command, files, verbose, examplesDir, kind, pc, i, invokeBound,
               successful_builds, progress_bar, procs, exitCode, exc, excFrom,
               outcome, unitErrors, outDir, tally, completions, cacheDirs,
               cwd, prev_cwd>>

invokeVars == <<ambient, build_mode, rootRcExists, localRcExists, exampleName,
                ipc, invoke, extra_env, childEnv>>

\* The variables the build handlers do not touch.
\* The destinations of the artifacts of a list of unit names.
VARIABLES
    dnames,             \* the names given on the command line
    dk,                 \* index of the name in hand
    dests               \* per name handled so far: the path the copy writes

\* tests/run_module_tests.py: run_module_test over one module.
VARIABLES
    tAmbient,           \* os.environ of the test runner
    tModes,             \* the modes listed for the module, in order
    tk,                 \* index of the mode in hand
    tpc,                \* position in run_module_test
    tEnv,               \* env handed to both latexmk calls of the mode
    tResults,           \* modes recorded as "ok"
    tExc,               \* the exception that left run_module_test, or "none"
    tCalls,             \* the calls of run_latexmk made so far, in order
    tModule,            \* index into TEST_MATRIX of the module in hand
    matrix_summary,     \* main's summary: the results of the modules done
    tPrinted,           \* the summary has been printed
    tReturn             \* what main returned, or NoExit

\* BuildTasks.build_all: build_root, then build_examples.
VARIABLES
    apc,                \* position of build_all
    rootKind,           \* what the root build meets
    rootProc,           \* the compiler process of the root document is alive
    rootReturned,       \* build_root has returned to build_all
    examplesCalled,     \* build_examples has been called
    aexc                \* exception that left build_all, or "none"

\* tools/convert_omnl_floats.py: strip_braces applied to one value.
VARIABLES
    sValue,             \* the argument, a string as the list of its characters
    sResult,            \* the value returned
    spc                 \* "idle" | "call" | "returned"

\* tools/build_examples_select.py: run_builds over the selections.
VARIABLES
    rSelections,        \* the names handed to run_builds, in order
    dashed,             \* names build.py's argument parser rejects
    rk,                 \* index of the selection in hand
    rpc,                \* position in run_builds
    rStarted,           \* names whose build subprocess was started, in order
    rCodes,             \* return codes of the subprocesses that have ended
    rReported,          \* names reported with "[ERROR] Example ... failed"
    rExit               \* code given to sys.exit, or NoExit

\* tools/build_examples_select.py: main and parse_selection.
VARIABLES
    names,              \* the examples discovered, in listed order
    selection,          \* the line typed at the prompt
    mpc,                \* position in the selector's main
    chosen,             \* what parse_selection returned
    raised,             \* parse_selection raised ValueError
    mExit,              \* code main gave to sys.exit, or NoExit
    buildsCalled        \* run_builds was called with `chosen`

rerunVars == <<runNo, firstOutcome>>

parseVars == <<names, selection, mpc, chosen, raised, mExit, buildsCalled>>

selectVars == <<rSelections, dashed, rk, rpc, rStarted, rCodes, rReported, rExit>>

stripVars == <<sValue, sResult, spc>>

allVars == <<apc, rootKind, rootProc, rootReturned, examplesCalled, aexc>>

mainVars == <<tModule, matrix_summary, tPrinted, tReturn>>

testVars == <<tAmbient, tModes, tk, tpc, tEnv, tResults, tExc, tCalls, mainVars>>

destVars == <<dnames, dk, dests>>

\* The variables of the parts that run apart from the build handlers.
pureVars == <<destVars, testVars, stripVars, selectVars, parseVars>>

handlerVars == <<buildVars, invokeVars, barClass, rerunVars, allVars>>

notDest == <<handlerVars, testVars, stripVars, selectVars, parseVars>>

notTest == <<handlerVars, destVars, stripVars, selectVars, parseVars>>

notStrip == <<handlerVars, destVars, testVars, selectVars, parseVars>>

aux == <<invokeVars, barClass, rerunVars, pureVars, allVars>>

\* The variables the assembly of a call does not touch.
notInvoke == <<buildVars, barClass, rerunVars, pureVars, allVars>>

vars == <<buildVars, aux>>

NoBar == [total |-> 0, current |-> 0, closed |-> FALSE, made |-> FALSE]

NoTally == <<>>

\* No exit status: the program has not called sys.exit or returned.
NoExit == -1

Range(s) == {s[k] : k \in 1..Len(s)}

\* Lists of distinct unit names (BuildUnit.name is unique within a run).
InjSeqs(S) ==
    {s \in UNION {[1..n -> S] : n \in 0..Cardinality(S)} :
        \A a, b \in DOMAIN s : a # b => s[a] # s[b]}

\* ------------------------------------------------------------------------
\* What the code observes of a unit's environment.
\* ------------------------------------------------------------------------
DirExists(u) == kind[u] # "nodir"

\* Variant: the source is taken to exist wherever its directory does.
MainTexExists_IfDir(u) == kind[u] # "nodir"

MainTexExists(u) == kind[u] \notin {"nodir", "notex"}

SetupOk(u) == kind[u] # "setupErr"

SpawnRaises(u) == kind[u] = "runRaise"

PdfPresent(u) == kind[u] \in {"pdf", "copyFail"}

CopyOk(u) == kind[u] # "copyFail"

Unit == IF i \in 1..Len(files) THEN files[i] ELSE NoName


\* ------------------------------------------------------------------------
\* The progress tracker (SimpleProgressBar; tqdm keeps the same counters).
\* ------------------------------------------------------------------------
UseProgress(fs, v) == Len(fs) > 1 /\ ~v

NewBar(n) == [total |-> n, current |-> 0, closed |-> FALSE, made |-> TRUE]

Update(bar, n) == [bar EXCEPT !.current = @ + n]

Close(bar) == [bar EXCEPT !.closed = TRUE]

\* `if use_progress: progress_bar.update(1)`
UpdateIfUsed(bar) == IF bar.made THEN Update(bar, 1) ELSE bar

\* Variant: the skip paths leave the tracker alone.
SkipUpdate_Missing(bar) == bar

\* The update on the two skip paths of build_example and the one of build_tex.
SkipUpdate(bar) == UpdateIfUsed(bar)

CloseIfUsed(bar) == IF bar.made THEN Close(bar) ELSE bar

\* `try: from tqdm import tqdm / except ImportError: tqdm = SimpleProgressBar`
BarClasses == {"tqdm", "SimpleProgressBar"}

\* Lines SimpleProgressBar has printed on stdout for a bar: one by __init__,
\* one per set_description (sets) and one per update; tqdm redraws one line
\* on stderr instead.
BarLines(cls, bar, sets) ==
    IF bar.made /\ cls = "SimpleProgressBar" THEN 1 + sets + bar.current ELSE 0

\* Variant: only a run with a progress bar leaves out the missing units.
SkipsUnit_OnlyWithBar(u) ==
    progress_bar.made /\ (~DirExists(u) \/ ~MainTexExists(u))

\* Directories, relative to the one the run starts in.
StartDir == <<>>

\* `examples_dir / example_name`
ExampleDir(u) == <<"examples", u>>

\* Variant: the with block does not go back on leaving.
WdExit_Stay(prev, cur) == cur

\* working_directory, `finally: os.chdir(prev_cwd)`
WdExit(prev, cur) == prev

\* Variant: mkdir without exist_ok raises FileExistsError on a directory
\* that is already there.
MkdirRaises_NotExistOk(exists) == exists

\* `cache_dir.mkdir(parents=True, exist_ok=True)`: an existing directory is
\* no error.
MkdirRaises(exists) == FALSE

\* `if not example_dir.exists(): ... continue`, `if not main_tex.exists(): ... continue`
SkipsUnit(u) == ~DirExists(u) \/ ~MainTexExists(u)

\* ------------------------------------------------------------------------
\* Exception handling of the code.
\* ------------------------------------------------------------------------
\* CommandRunner.run: `except subprocess.CalledProcessError`, `except FileNotFoundError`.
RunnerCatches(e) == e \in {"CalledProcessError", "FileNotFoundError"}

\* Variant: the except clause of build_example without OSError.
BuildExampleCatches_NoOSError(e) == e \in {"CalledProcessError"}

\* clean_example: `except (OSError, subprocess.CalledProcessError, FileNotFoundError)`.
CleanExampleCatches(e) == e \in {"OSError", "CalledProcessError", "FileNotFoundError"}

\* build_example: `except (OSError, subprocess.CalledProcessError, FileNotFoundError)`.
\* FileNotFoundError is a subclass of OSError.
BuildExampleCatches(e) == e \in {"OSError", "CalledProcessError", "FileNotFoundError"}

\* Variant: the child is started and not waited for.
RunMayReturn_NoWait(u) == TRUE

\* subprocess.run returns only once the child process has exited.
RunMayReturn(u) == u \notin procs

\* Variant: success decided by the exit status of the compiler.
SrcPdfExists_ByExitCode(u) == exitCode = "zero"

\* `if src_pdf.exists()`
SrcPdfExists(u) == PdfPresent(u)

\* Variant: the increment is lost.
CountBuilt_Lost(n) == n

\* `successful_builds += 1`
CountBuilt(n) == n + 1

\* The message of the final ui.success line: X/Y.
Tally(x, fs) == <<x, Len(fs)>>

AfterReturn ==
    IF command = "build_tex" THEN "tbuilt"
    ELSE IF command = "clean_example" THEN "cleaned"
    ELSE "check"

AfterRaise ==
    IF command = "build_tex" THEN "texcept"
    ELSE IF command = "clean_example" THEN "cexcept"
    ELSE "except"

\* ------------------------------------------------------------------------
\* Environments and command lines.  An environment is a function from the
\* names of the variables that are set to their values.  A value is the list
\* of its os.pathsep-separated entries, an entry the list of its path
\* components: "1" is <<<<"1">>>>, "" is <<<<>>>>, "/repo:/usr/tex" is
\* <<<<"repo">>, <<"usr", "tex">>>>.  Joining with os.pathsep concatenates.
\* ------------------------------------------------------------------------
Val(str) == <<<<str>>>>

EmptyEntry == <<>>

EmptyStr == <<EmptyEntry>>

\* Path(__file__).resolve().parent
RepoRoot == <<"repo">>

\* examples_dir / example_name, as Path.cwd() gives it inside the with block
UnitDir(n) == <<"repo", "examples", n>>

\* os.environ.get(k, default)
Get(e, k, default) == IF k \in DOMAIN e THEN e[k] ELSE default

\* dict.update: the entries of b on top of those of a
Override(a, b) ==
    [k \in DOMAIN a \cup DOMAIN b |-> IF k \in DOMAIN b THEN b[k] ELSE a[k]]

\* Variant: the flag is added whenever the variable is set.
ForceRebuild_WhenSet(amb) == "OMNILATEX_FORCE_REBUILD" \in DOMAIN amb

\* `os.environ.get("OMNILATEX_FORCE_REBUILD") == "1"`
ForceRebuild(amb) ==
    /\ "OMNILATEX_FORCE_REBUILD" \in DOMAIN amb
    /\ amb["OMNILATEX_FORCE_REBUILD"] = Val("1")

\* texinputs_entries, joined with os.pathsep
TexInputs(amb) ==
    LET current_texinputs == Get(amb, "TEXINPUTS", EmptyStr)
    IN  <<RepoRoot>>
          \o (IF current_texinputs # EmptyStr THEN current_texinputs ELSE <<>>)
          \o <<EmptyEntry>>

\* The extra_env dictionary of build_example.
ExampleEnv(amb, n) ==
    [k \in {"MINTED_CACHE_DIR", "OMNILATEX_EXAMPLE_ROOT", "TEXINPUTS", "LC_ALL"} |->
        CASE k = "MINTED_CACHE_DIR"       -> <<UnitDir(n) \o <<"build", "_minted">>>>
          [] k = "OMNILATEX_EXAMPLE_ROOT" -> <<UnitDir(n)>>
          [] k = "TEXINPUTS"              -> TexInputs(amb)
          [] k = "LC_ALL"                 -> Val("C.utf8")]

\* cmd + latexmk_flags, the -r options, main.tex
ExampleInvoke(amb, rootRc, localRc) ==
    <<"latexmk", "-interaction=nonstopmode">>
      \o (IF ForceRebuild(amb) THEN <<"-g">> ELSE <<>>)
      \o (IF rootRc THEN <<"-r", "/repo/.latexmkrc">> ELSE <<>>)
      \o (IF localRc THEN <<"-r", ".latexmkrc">> ELSE <<>>)
      \o <<"main.tex">>

\* Variant: BUILD_MODE is written after the overrides.
RunEnv_ModeLast(amb, mode, extra) ==
    Override(Override(amb, extra), "BUILD_MODE" :> Val(mode))

\* CommandRunner.run: env = os.environ.copy(); env["BUILD_MODE"] = ...;
\* env.update(extra_env) when extra_env is given and not empty.
RunEnv(amb, mode, extra) ==
    Override(Override(amb, "BUILD_MODE" :> Val(mode)), extra)

\* The environment of the parent after run: run writes to a copy.
ParentEnv(amb, mode, extra) == amb

Absent == <<<<"absent">>>>

\* The environment made of the given settings; PATH is always set.
MkEnv(settings) ==
    LET present == {st \in settings : st[2] # Absent}
    IN  [k \in {st[1] : st \in present} \cup {"PATH"} |->
            IF k = "PATH" THEN Val("/bin")
            ELSE (CHOOSE st \in present : st[1] = k)[2]]

AmbientEnvs ==
    {MkEnv({<<"TEXINPUTS", t>>, <<"OMNILATEX_FORCE_REBUILD", f>>,
            <<"BUILD_MODE", b>>, <<"LC_ALL", l>>}) :
        t \in {Absent, EmptyStr, <<<<"usr", "tex">>>>,
               <<<<"usr", "tex">>, <<"home", "tex">>>>},
        f \in {Absent, Val("1"), Val("0")},
        b \in {Absent, Val("prod")},
        l \in {Absent, Val("de_DE")}}

\* extra_env of the other callers of run: none (clean_aux), build_root's, and
\* one that sets BUILD_MODE itself.
OtherExtraEnvs ==
    {<<>>,
     "MINTED_CACHE_DIR" :> <<<<"repo", "build", "_minted">>>>,
     "BUILD_MODE" :> Val("ultra")}

\* What build_root meets:
\*   nomain    main.tex is missing in the root directory
\*   mkdirErr  creating build/_minted raises OSError
\*   notfound  latexmk is not found
\*   runRaise  starting latexmk raises another OSError
\*   fail      latexmk exits with a nonzero status
\*   ok        latexmk exits with status 0
RootKinds == {"nomain", "mkdirErr", "notfound", "runRaise", "fail", "ok"}

\* build_all is not the handler.
AllIdle ==
    /\ apc = "idle"
    /\ rootKind = "ok"
    /\ rootProc = FALSE
    /\ rootReturned = FALSE
    /\ examplesCalled = FALSE
    /\ aexc = "none"

\* The first call is the only one.
RerunIdle ==
    /\ runNo = 1
    /\ firstOutcome = [u \in Names |-> "none"]

InvokeIdle ==
    /\ ambient = <<>>
    /\ build_mode = "dev"
    /\ rootRcExists = FALSE
    /\ localRcExists = FALSE
    /\ exampleName = "a"
    /\ ipc = "idle"
    /\ invoke = <<>>
    /\ extra_env = <<>>
    /\ childEnv = <<>>

\* ------------------------------------------------------------------------
\* Destination of an artifact.  A unit name is the list of the components of
\* the string given on the command line ("./a" is <<".", "a">>); a path is a
\* list of components, a file name with a suffix the pair <<stem, suffix>>.
\* ------------------------------------------------------------------------
\* Longest name, in components, and number of names of a list.
MaxDepth == 2

DestUnits == 2

Components == {".", "a", "b"}

RawNames == UNION {[1..n -> Components] : n \in 1..MaxDepth}

\* self.config.build_dir / BUILD_EXAMPLES_SUBDIR
BuildExamplesDir == <<"build", "examples">>

\* pathlib drops the "." components of a path it is given.
RECURSIVE DropDots(_)
DropDots(parts) ==
    IF parts = <<>> THEN <<>>
    ELSE IF Head(parts) = "." THEN DropDots(Tail(parts))
    ELSE <<Head(parts)>> \o DropDots(Tail(parts))

\* `build_examples_dir / f"{example_name}.pdf"`: the suffix is appended to
\* the string, so to its last component, before the path is parsed.
DestPdf(name) ==
    BuildExamplesDir
        \o DropDots(SubSeq(name, 1, Len(name) - 1))
        \o << <<name[Len(name)], ".pdf">> >>

DestIdle ==
    /\ dnames = <<>>
    /\ dk = 0
    /\ dests = <<>>

\* ------------------------------------------------------------------------
\* tests/run_module_tests.py
\* ------------------------------------------------------------------------
\* The modes of three modules of TEST_MATRIX (core-base, code-listings,
\* glossary).
ModuleModes == {<<"dev", "prod", "ultra">>, <<"dev", "ultra">>, <<"dev">>}

\* dict.setdefault: the value is set only when the key is absent.
SetDefault(e, k, v) == IF k \in DOMAIN e THEN e ELSE Override(e, k :> v)

\* `env = os.environ.copy(); env.setdefault("BUILD_MODE", mode);
\*  env.setdefault("OMNILATEX_SKIP_BIB2GLS", "1")`
TestEnv(amb, mode) ==
    SetDefault(SetDefault(amb, "BUILD_MODE", Val(mode)),
               "OMNILATEX_SKIP_BIB2GLS", Val("1"))

\* Environments of the test runner: BUILD_MODE and OMNILATEX_SKIP_BIB2GLS
\* set or not.
TestAmbientEnvs ==
    {MkEnv({<<"BUILD_MODE", bm>>, <<"OMNILATEX_SKIP_BIB2GLS", sk>>}) :
        bm \in {Absent, Val("dev"), Val("prod"), Val("ultra")},
        sk \in {Absent, Val("0")}}

TestIdle ==
    /\ tAmbient = <<>>
    /\ tModes = <<>>
    /\ tk = 0
    /\ tpc = "idle"
    /\ tEnv = <<>>
    /\ tResults = {}
    /\ tExc = "none"
    /\ tCalls = <<>>
    /\ tModule = 0
    /\ matrix_summary = <<>>
    /\ tPrinted = FALSE
    /\ tReturn = NoExit

\* ------------------------------------------------------------------------
\* tools/convert_omnl_floats.py: strip_braces.  A string is the list of its
\* characters.
\* ------------------------------------------------------------------------
\* Longest argument.
MaxLen == 4

Chars == {"{", "}", "a", " "}

Strings == UNION {[1..n -> Chars] : n \in 0..MaxLen}

\* str.strip(): leading and trailing whitespace removed.
RECURSIVE LStrip(_)
LStrip(v) == IF v # <<>> /\ Head(v) = " " THEN LStrip(Tail(v)) ELSE v

RECURSIVE RStrip(_)
RStrip(v) ==
    IF v # <<>> /\ v[Len(v)] = " " THEN RStrip(SubSeq(v, 1, Len(v) - 1)) ELSE v

Strip(v) == RStrip(LStrip(v))

\* `value[1:-1]`
Inner(v) == SubSeq(v, 2, Len(v) - 1)

\* The for loop of strip_braces from character k on, `depth` braces being
\* open: TRUE when the return inside the loop is taken, which needs a "}"
\* that brings the depth to 0 and differs from the last character.
RECURSIVE EarlyReturn(_, _, _)
EarlyReturn(v, k, depth) ==
    IF k > Len(v) THEN FALSE
    ELSE IF v[k] = "{" THEN EarlyReturn(v, k + 1, depth + 1)
    ELSE IF v[k] = "}"
         THEN IF depth - 1 = 0 /\ v[k] # v[Len(v)] THEN TRUE
              ELSE EarlyReturn(v, k + 1, depth - 1)
    ELSE EarlyReturn(v, k + 1, depth)

\* strip_braces: both returns under the test for surrounding braces give
\* value[1:-1].
strip_braces(value) ==
    LET v == Strip(value)
    IN  IF v # <<>> /\ v[1] = "{" /\ v[Len(v)] = "}"
        THEN IF EarlyReturn(v, 1, 0) THEN Inner(v) ELSE Inner(v)
        ELSE v

StripIdle ==
    /\ sValue = <<>>
    /\ sResult = <<>>
    /\ spc = "idle"

\* ------------------------------------------------------------------------
\* tools/build_examples_select.py: run_builds
\* ------------------------------------------------------------------------
SelectIdle ==
    /\ rSelections = <<>>
    /\ dashed = {}
    /\ rk = 0
    /\ rpc = "idle"
    /\ rStarted = <<>>
    /\ rCodes = <<>>
    /\ rReported = {}
    /\ rExit = NoExit

ParseIdle ==
    /\ names = <<>>
    /\ selection = <<>>
    /\ mpc = "idle"
    /\ chosen = <<>>
    /\ raised = FALSE
    /\ mExit = NoExit
    /\ buildsCalled = FALSE

PureIdle == DestIdle /\ TestIdle /\ StripIdle /\ SelectIdle /\ ParseIdle

\* ------------------------------------------------------------------------
\* Initial states: the arguments of the handler and the environment.
\* ------------------------------------------------------------------------
Init ==
    /\ command \in {"build_example", "build_tex"}
    /\ files \in InjSeqs(Names)
    /\ verbose \in BOOLEAN
    /\ examplesDir \in BOOLEAN
    /\ command = "build_tex" => examplesDir
    /\ kind \in [Names -> Kinds]
    /\ \A u \in Names : u \notin Range(files) => kind[u] = "pdf"
    /\ command = "build_tex" => \A u \in Names : kind[u] \in TexKinds
    /\ pc = "start"
    /\ i = 0
    /\ invokeBound = FALSE
    /\ successful_builds = 0
    /\ progress_bar = NoBar
    /\ procs = {}
    /\ exitCode = "none"
    /\ exc = "none"
    /\ excFrom = "none"
    /\ outcome = [u \in Names |-> "none"]
    /\ unitErrors = {}
    /\ outDir = {}
    /\ tally = NoTally
    /\ completions = <<>>
    /\ cacheDirs = {}
    /\ cwd = StartDir
    /\ prev_cwd = StartDir
    /\ InvokeIdle
    /\ RerunIdle
    /\ AllIdle
    /\ PureIdle
    /\ barClass = "tqdm"

env == <<command, files, verbose, examplesDir, kind>>

wd == <<cwd, prev_cwd>>

\* ------------------------------------------------------------------------
\* BuildTasks.build_example
\* ------------------------------------------------------------------------
\* Entry: the two early returns, the output directory, the tracker.
BE_Enter ==
    /\ pc = "start"
    /\ command \in {"build_example", "build_all"}
    /\ IF files = <<>>
       THEN /\ unitErrors' = unitErrors \cup {"no_name"}
            /\ pc' = "returned"
            /\ UNCHANGED <<i, progress_bar>>
       ELSE IF ~examplesDir
       THEN /\ unitErrors' = unitErrors \cup {"no_examples_dir"}
            /\ pc' = "returned"
            /\ UNCHANGED <<i, progress_bar>>
       ELSE /\ progress_bar' = IF UseProgress(files, verbose)
                               THEN NewBar(Len(files)) ELSE NoBar
            /\ i' = 1
            /\ pc' = "loop"
            /\ UNCHANGED unitErrors
    /\ successful_builds' = 0
    /\ UNCHANGED completions
    /\ UNCHANGED <<aux, env, wd, cacheDirs, invokeBound, procs, exitCode, exc, excFrom, outcome,
                   outDir, tally>>

\* A unit without directory or without main.tex: warning, update, continue.
BE_Skip ==
    /\ pc = "loop"
    /\ i <= Len(files)
    /\ SkipsUnit(Unit)
    /\ outcome' = [outcome EXCEPT ![Unit] = "skipped"]
    /\ progress_bar' = SkipUpdate(progress_bar)
    /\ i' = i + 1
    /\ completions' = Append(completions, Unit)
    /\ UNCHANGED <<aux, env, wd, cacheDirs, pc, invokeBound, successful_builds, procs, exitCode,
                   exc, excFrom, unitErrors, outDir, tally>>

\* The unit passes both checks and the try block is entered.
BE_Begin ==
    /\ pc = "loop"
    /\ i <= Len(files)
    /\ ~SkipsUnit(Unit)
    /\ pc' = "setup"
    /\ UNCHANGED completions
    /\ UNCHANGED <<aux, env, wd, cacheDirs, i, invokeBound, successful_builds, progress_bar, procs,
                   exitCode, exc, excFrom, outcome, unitErrors, outDir, tally>>

\* working_directory(example_dir), the cache directories, the command line.
\* `invoke` is assigned only when everything before it went through.
BE_Setup ==
    /\ pc = "setup"
    /\ IF SetupOk(Unit) /\ ~MkdirRaises(Unit \in cacheDirs)
       THEN /\ prev_cwd' = cwd
            /\ cwd' = ExampleDir(Unit)
            /\ invokeBound' = TRUE
            /\ cacheDirs' = cacheDirs \cup {Unit}
            /\ pc' = "invoke"
            /\ UNCHANGED <<exc, excFrom>>
       ELSE /\ \E entered \in BOOLEAN :
                  \* os.chdir raises, or a mkdir inside the with block does
                  /\ MkdirRaises(Unit \in cacheDirs) => entered
                  /\ prev_cwd' = IF entered THEN cwd ELSE prev_cwd
                  /\ cwd' = IF entered THEN WdExit(cwd, ExampleDir(Unit)) ELSE cwd
            /\ exc' = "OSError"
            /\ excFrom' = "setup"
            /\ pc' = "except"
            /\ UNCHANGED <<invokeBound, cacheDirs>>
    /\ UNCHANGED completions
    /\ UNCHANGED <<aux, env, i, successful_builds, progress_bar, procs, exitCode,
                   outcome, unitErrors, outDir, tally>>


\* ------------------------------------------------------------------------
\* CommandRunner.run (capture_output = False): subprocess.run(check=True)
\* ------------------------------------------------------------------------
\* The working directory once run has returned or raised: build_example and
\* clean_example call run as the last statement of a with block, build_tex
\* calls it in the directory of the run.
LeaveWith == IF command = "build_tex" THEN cwd ELSE WdExit(prev_cwd, cwd)

\* The program is not started: it is not found (FileNotFoundError, which run
\* catches and reports), or starting it raises another OSError.
Run_NotStarted ==
    /\ pc = "invoke"
    /\ \E e \in {"FileNotFoundError", "OSError"} :
          /\ e = "OSError" <=> SpawnRaises(Unit)
          /\ IF RunnerCatches(e)
             THEN /\ unitErrors' = unitErrors \cup {"not_found"}
                  /\ exitCode' = "notfound"
                  /\ pc' = AfterReturn
                  /\ UNCHANGED <<exc, excFrom>>
             ELSE /\ exc' = e
                  /\ excFrom' = "run"
                  /\ exitCode' = "oserror"
                  /\ pc' = AfterRaise
                  /\ UNCHANGED unitErrors
    /\ cwd' = LeaveWith
    /\ UNCHANGED completions
    /\ UNCHANGED <<aux, env, prev_cwd, cacheDirs, i, invokeBound, successful_builds, progress_bar, procs,
                   outcome, outDir, tally>>

\* The child process is started.
Run_Spawn ==
    /\ pc = "invoke"
    /\ ~SpawnRaises(Unit)
    /\ procs' = procs \cup {Unit}
    /\ pc' = "wait"
    /\ UNCHANGED completions
    /\ UNCHANGED <<aux, env, wd, cacheDirs, i, invokeBound, successful_builds, progress_bar,
                   exitCode, exc, excFrom, outcome, unitErrors, outDir, tally>>

\* The external compiler ends, with exit status zero or not.
Proc_Exit(u) ==
    /\ u \in procs
    /\ procs' = procs \ {u}
    /\ \E st \in {"zero", "nonzero"} :
          exitCode' = IF u = Unit /\ pc = "wait" THEN st ELSE exitCode
    /\ UNCHANGED completions
    /\ UNCHANGED <<aux, env, wd, cacheDirs, pc, i, invokeBound, successful_builds, progress_bar,
                   exc, excFrom, outcome, unitErrors, outDir, tally>>

\* subprocess.run returns; a nonzero status raises CalledProcessError
\* (check=True), which run catches and reports.  run returns None.
Run_Return ==
    /\ pc = "wait"
    /\ RunMayReturn(Unit)
    /\ LET e == IF exitCode = "nonzero" THEN "CalledProcessError" ELSE "none"
       IN  IF e = "none"
           THEN /\ pc' = AfterReturn
                /\ UNCHANGED <<unitErrors, exc, excFrom>>
           ELSE IF RunnerCatches(e)
           THEN /\ unitErrors' = unitErrors \cup {"exit_nonzero"}
                /\ pc' = AfterReturn
                /\ UNCHANGED <<exc, excFrom>>
           ELSE /\ exc' = e
                /\ excFrom' = "run"
                /\ pc' = AfterRaise
                /\ UNCHANGED unitErrors
    /\ cwd' = LeaveWith
    /\ UNCHANGED completions
    /\ UNCHANGED <<aux, env, prev_cwd, cacheDirs, i, invokeBound, successful_builds, progress_bar, procs,
                   exitCode, outcome, outDir, tally>>

\* ------------------------------------------------------------------------
\* build_example, after the with block
\* ------------------------------------------------------------------------
\* The artifact check and the copy into build/examples.
BE_Check ==
    /\ pc = "check"
    /\ IF SrcPdfExists(Unit)
       THEN IF CopyOk(Unit)
            THEN /\ outDir' = outDir \cup {Unit}
                 /\ outcome' = [outcome EXCEPT ![Unit] = "succeeded"]
                 /\ successful_builds' = CountBuilt(successful_builds)
                 /\ pc' = "finally"
                 /\ UNCHANGED <<exc, excFrom>>
            ELSE /\ exc' = "OSError"
                 /\ excFrom' = "copy"
                 /\ pc' = "except"
                 /\ UNCHANGED <<outDir, outcome, successful_builds>>
       ELSE /\ outcome' = [outcome EXCEPT ![Unit] = "failed"]
            /\ pc' = "finally"
            /\ UNCHANGED <<outDir, successful_builds, exc, excFrom>>
    /\ UNCHANGED completions
    /\ UNCHANGED <<aux, env, wd, cacheDirs, i, invokeBound, progress_bar, procs, exitCode,
                   unitErrors, tally>>

\* The except clause.  Its first statement reads the local `invoke`: when no
\* unit of this call has assigned it yet, that read raises UnboundLocalError
\* inside the handler.
BE_Except ==
    /\ pc = "except"
    /\ IF ~BuildExampleCatches(exc)
       THEN UNCHANGED <<exc, excFrom, outcome, unitErrors>>
       ELSE IF ~invokeBound
       THEN /\ exc' = "UnboundLocalError"
            /\ excFrom' = "handler"
            /\ UNCHANGED <<outcome, unitErrors>>
       ELSE /\ unitErrors' = unitErrors \cup {"build_failed"}
            /\ outcome' = [outcome EXCEPT ![Unit] = "failed"]
            /\ exc' = "none"
            /\ excFrom' = "none"
    /\ pc' = "finally"
    /\ UNCHANGED completions
    /\ UNCHANGED <<aux, env, wd, cacheDirs, i, invokeBound, successful_builds, progress_bar, procs,
                   exitCode, outDir, tally>>

\* The finally clause; an exception still in flight then leaves build_example.
BE_Finally ==
    /\ pc = "finally"
    /\ progress_bar' = UpdateIfUsed(progress_bar)
    /\ IF exc # "none"
       THEN /\ pc' = "aborted"
            /\ UNCHANGED <<i, exitCode, unitErrors>>
       ELSE /\ pc' = "loop"
            /\ i' = i + 1
            /\ exitCode' = "none"
            /\ unitErrors' = {}
    /\ completions' = Append(completions, Unit)
    /\ UNCHANGED <<aux, env, wd, cacheDirs, invokeBound, successful_builds, procs, exc, excFrom,
                   outcome, outDir, tally>>

\* After the loop: close the tracker, print the tally.
BE_Finish ==
    /\ pc = "loop"
    /\ i > Len(files)
    /\ progress_bar' = CloseIfUsed(progress_bar)
    /\ tally' = Tally(successful_builds, files)
    /\ pc' = "done"
    /\ UNCHANGED completions
    /\ UNCHANGED <<aux, env, wd, cacheDirs, i, invokeBound, successful_builds, procs, exitCode,
                   exc, excFrom, outcome, unitErrors, outDir>>

\* ------------------------------------------------------------------------
\* BuildTasks.build_tex (files is the list of targets after discovery)
\* ------------------------------------------------------------------------
BT_Enter ==
    /\ pc = "start"
    /\ command = "build_tex"
    /\ IF files = <<>>
       THEN /\ pc' = "returned"
            /\ UNCHANGED <<i, progress_bar>>
       ELSE /\ progress_bar' = IF UseProgress(files, verbose)
                               THEN NewBar(Len(files)) ELSE NoBar
            /\ i' = 1
            /\ pc' = "tloop"
    /\ successful_builds' = 0
    /\ UNCHANGED completions
    /\ UNCHANGED <<aux, env, wd, cacheDirs, invokeBound, procs, exitCode, exc, excFrom, outcome,
                   unitErrors, outDir, tally>>

\* `if not tex_path.exists()`: warning, update, continue.
BT_Skip ==
    /\ pc = "tloop"
    /\ i <= Len(files)
    /\ ~MainTexExists(Unit)
    /\ outcome' = [outcome EXCEPT ![Unit] = "skipped"]
    /\ progress_bar' = SkipUpdate(progress_bar)
    /\ i' = i + 1
    /\ completions' = Append(completions, Unit)
    /\ UNCHANGED <<aux, env, wd, cacheDirs, pc, invokeBound, successful_builds, procs, exitCode,
                   exc, excFrom, unitErrors, outDir, tally>>

BT_Begin ==
    /\ pc = "tloop"
    /\ i <= Len(files)
    /\ MainTexExists(Unit)
    /\ pc' = "invoke"
    /\ UNCHANGED completions
    /\ UNCHANGED <<aux, env, wd, cacheDirs, i, invokeBound, successful_builds, progress_bar, procs,
                   exitCode, exc, excFrom, outcome, unitErrors, outDir, tally>>

\* run returned: "Successfully built", whatever the compiler's status was.
BT_Built ==
    /\ pc = "tbuilt"
    /\ outcome' = [outcome EXCEPT ![Unit] = "succeeded"]
    /\ successful_builds' = CountBuilt(successful_builds)
    /\ progress_bar' = UpdateIfUsed(progress_bar)
    /\ i' = i + 1
    /\ exitCode' = "none"
    /\ pc' = "tloop"
    /\ unitErrors' = {}
    /\ completions' = Append(completions, Unit)
    /\ UNCHANGED <<aux, env, wd, cacheDirs, invokeBound, procs, exc, excFrom, outDir, tally>>

\* `except Exception`: "Failed to build"; the loop goes on.
BT_Failed ==
    /\ pc = "texcept"
    /\ outcome' = [outcome EXCEPT ![Unit] = "failed"]
    /\ unitErrors' = {}
    /\ exc' = "none"
    /\ excFrom' = "none"
    /\ progress_bar' = UpdateIfUsed(progress_bar)
    /\ i' = i + 1
    /\ exitCode' = "none"
    /\ pc' = "tloop"
    /\ completions' = Append(completions, Unit)
    /\ UNCHANGED <<aux, env, wd, cacheDirs, invokeBound, successful_builds, procs, outDir, tally>>

BT_Finish ==
    /\ pc = "tloop"
    /\ i > Len(files)
    /\ progress_bar' = CloseIfUsed(progress_bar)
    /\ tally' = Tally(successful_builds, files)
    /\ pc' = "done"
    /\ UNCHANGED completions
    /\ UNCHANGED <<aux, env, wd, cacheDirs, i, invokeBound, successful_builds, procs, exitCode,
                   exc, excFrom, outcome, unitErrors, outDir>>

Proc_ExitAny == \E u \in Names : Proc_Exit(u)

Next ==
    \/ BE_Enter
    \/ BE_Skip
    \/ BE_Begin
    \/ BE_Setup
    \/ Run_NotStarted
    \/ Run_Spawn
    \/ Proc_ExitAny
    \/ Run_Return
    \/ BE_Check
    \/ BE_Except
    \/ BE_Finally
    \/ BE_Finish
    \/ BT_Enter
    \/ BT_Skip
    \/ BT_Begin
    \/ BT_Built
    \/ BT_Failed
    \/ BT_Finish

Spec == Init /\ [][Next]_vars

\* The handler is a sequential program and every step of it is taken; the
\* external compiler is assumed to terminate.
FairSpec == Spec /\ WF_vars(Next)

TypeOK ==
    /\ pc \in {"start", "loop", "setup", "invoke", "wait", "check", "except",
               "finally", "tloop", "tbuilt", "texcept", "done", "aborted",
               "returned"}
    /\ i \in 0..(Len(files) + 1)
    /\ successful_builds \in 0..Len(files)
    /\ procs \subseteq Names
    /\ outDir \subseteq Names
    /\ exc \in {"none", "OSError", "CalledProcessError", "FileNotFoundError",
                "UnboundLocalError"}


\* ------------------------------------------------------------------------
\* build_example as a function of the list: the body of the loop applied to
\* one unit, and the loop as a fold over the list.
\* ------------------------------------------------------------------------
\* The unit gets as far as the assignment of `invoke`.
ReachesInvoke(u) == DirExists(u) /\ MainTexExists(u) /\ SetupOk(u)

\* What one pass of the loop body does with unit u, given whether `invoke`
\* is bound on entry: the classification, or "raised" when an exception
\* leaves build_example.
UnitOutcome(u, bound) ==
    IF ~DirExists(u) \/ ~MainTexExists(u) THEN "skipped"
    ELSE IF ~SetupOk(u)
         THEN IF ~BuildExampleCatches("OSError") THEN "raised"
              ELSE IF bound THEN "failed" ELSE "raised"
    ELSE IF SpawnRaises(u)
         THEN IF RunnerCatches("OSError") THEN
                  IF PdfPresent(u) /\ CopyOk(u) THEN "succeeded" ELSE "failed"
              ELSE IF BuildExampleCatches("OSError") THEN "failed" ELSE "raised"
    ELSE IF PdfPresent(u)
         THEN IF CopyOk(u) THEN "succeeded"
              ELSE IF BuildExampleCatches("OSError") THEN "failed" ELSE "raised"
    ELSE "failed"

RECURSIVE RunFrom(_, _, _)
RunFrom(order, k, st) ==
    IF k > Len(order) \/ st.raised THEN st
    ELSE LET u == order[k]
             o == UnitOutcome(u, st.bound)
         IN  RunFrom(order, k + 1,
                 [class  |-> IF o = "raised" THEN st.class
                             ELSE [st.class EXCEPT ![u] = o],
                  built  |-> IF o = "succeeded" THEN CountBuilt(st.built)
                             ELSE st.built,
                  bound  |-> st.bound \/ ReachesInvoke(u),
                  raised |-> o = "raised"])

\* The classification of every unit and the count of a whole run over `order`.
RunResult(order) ==
    RunFrom(order, 1, [class  |-> [u \in Names |-> "none"],
                       built  |-> 0,
                       bound  |-> FALSE,
                       raised |-> FALSE])

\* The orderings of a list.
Perms(fs) == {q \in InjSeqs(Range(fs)) : Len(q) = Len(fs)}

\* ------------------------------------------------------------------------
\* The assembly of a compiler call on its own: the ambient environment and
\* the files probed are the inputs.
\* ------------------------------------------------------------------------
\* No handler is running.
BuildRest ==
    /\ command = "none"
    /\ files = <<>>
    /\ verbose = FALSE
    /\ examplesDir = TRUE
    /\ pc = "idle"
    /\ i = 0
    /\ invokeBound = FALSE
    /\ successful_builds = 0
    /\ progress_bar = NoBar
    /\ procs = {}
    /\ exitCode = "none"
    /\ exc = "none"
    /\ excFrom = "none"
    /\ outcome = [u \in Names |-> "none"]
    /\ unitErrors = {}
    /\ outDir = {}
    /\ tally = NoTally
    /\ completions = <<>>
    /\ cacheDirs = {}
    /\ cwd = StartDir
    /\ prev_cwd = StartDir

BuildIdle ==
    /\ kind = [u \in Names |-> "pdf"]
    /\ BuildRest

InvokeInit ==
    /\ BuildIdle
    /\ RerunIdle
    /\ AllIdle
    /\ PureIdle
    /\ barClass = "tqdm"
    /\ ambient \in AmbientEnvs
    /\ build_mode \in {"dev", "prod", "ultra"}
    /\ rootRcExists \in BOOLEAN
    /\ localRcExists \in BOOLEAN
    /\ exampleName \in {"a", "b"}
    /\ ipc = "start"
    /\ invoke = <<>>
    /\ extra_env = <<>>
    /\ childEnv = <<>>

\* build_example, inside the with block: the command line and the overrides.
IV_Example ==
    /\ ipc = "start"
    /\ invoke' = ExampleInvoke(ambient, rootRcExists, localRcExists)
    /\ extra_env' = ExampleEnv(ambient, exampleName)
    /\ ipc' = "assembled"
    /\ UNCHANGED <<notInvoke, ambient, build_mode, rootRcExists, localRcExists,
                   exampleName, childEnv>>

\* Another caller of run (clean_aux, build_root, ...).
IV_Other ==
    /\ ipc = "start"
    /\ invoke' = <<"latexmk", "-c">>
    /\ extra_env' \in OtherExtraEnvs
    /\ ipc' = "assembled"
    /\ UNCHANGED <<notInvoke, ambient, build_mode, rootRcExists, localRcExists,
                   exampleName, childEnv>>

\* CommandRunner.run up to the call of subprocess.run.
IV_Merge ==
    /\ ipc = "assembled"
    /\ childEnv' = RunEnv(ambient, build_mode, extra_env)
    /\ ambient' = ParentEnv(ambient, build_mode, extra_env)
    /\ ipc' = "merged"
    /\ UNCHANGED <<notInvoke, build_mode, rootRcExists, localRcExists,
                   exampleName, invoke, extra_env>>

InvokeNext == IV_Example \/ IV_Other \/ IV_Merge

InvokeSpec == InvokeInit /\ [][InvokeNext]_vars

\* ------------------------------------------------------------------------
\* build_example under either progress bar class.
\* ------------------------------------------------------------------------
ProgressInit ==
    /\ command = "build_example"
    /\ files \in InjSeqs(Names)
    /\ verbose \in BOOLEAN
    /\ examplesDir = TRUE
    /\ kind \in [Names -> Kinds]
    /\ \A u \in Names : u \notin Range(files) => kind[u] = "pdf"
    /\ pc = "start"
    /\ i = 0
    /\ invokeBound = FALSE
    /\ successful_builds = 0
    /\ progress_bar = NoBar
    /\ procs = {}
    /\ exitCode = "none"
    /\ exc = "none"
    /\ excFrom = "none"
    /\ outcome = [u \in Names |-> "none"]
    /\ unitErrors = {}
    /\ outDir = {}
    /\ tally = NoTally
    /\ completions = <<>>
    /\ cacheDirs = {}
    /\ cwd = StartDir
    /\ prev_cwd = StartDir
    /\ InvokeIdle
    /\ RerunIdle
    /\ AllIdle
    /\ PureIdle
    /\ barClass \in BarClasses

ProgressNext ==
    \/ BE_Enter
    \/ BE_Skip
    \/ BE_Begin
    \/ BE_Setup
    \/ Run_NotStarted
    \/ Run_Spawn
    \/ Proc_ExitAny
    \/ Run_Return
    \/ BE_Check
    \/ BE_Except
    \/ BE_Finally
    \/ BE_Finish

ProgressSpec == ProgressInit /\ [][ProgressNext]_vars

\* ------------------------------------------------------------------------
\* build_example called a second time over the tree the first call left:
\* the sources and the behaviour of the compiler (kind) are the same, the
\* cache directories and the copied artifacts of the first call are there.
\* ------------------------------------------------------------------------
TwiceInit ==
    /\ command = "build_example"
    /\ files \in InjSeqs(Names)
    /\ verbose \in BOOLEAN
    /\ examplesDir = TRUE
    /\ kind \in [Names -> Kinds]
    /\ \A u \in Names : u \notin Range(files) => kind[u] = "pdf"
    /\ pc = "start"
    /\ i = 0
    /\ invokeBound = FALSE
    /\ successful_builds = 0
    /\ progress_bar = NoBar
    /\ procs = {}
    /\ exitCode = "none"
    /\ exc = "none"
    /\ excFrom = "none"
    /\ outcome = [u \in Names |-> "none"]
    /\ unitErrors = {}
    /\ outDir = {}
    /\ tally = NoTally
    /\ completions = <<>>
    /\ cacheDirs = {}
    /\ cwd = StartDir
    /\ prev_cwd = StartDir
    /\ InvokeIdle
    /\ RerunIdle
    /\ AllIdle
    /\ PureIdle
    /\ barClass = "tqdm"

\* The first call is over; the handler is called again with the same list.
\* Its locals start afresh, the file system is as the first call left it.
Rerun ==
    /\ runNo = 1
    /\ pc \in {"done", "aborted", "returned"}
    /\ runNo' = 2
    /\ firstOutcome' = outcome
    /\ pc' = "start"
    /\ i' = 0
    /\ invokeBound' = FALSE
    /\ successful_builds' = 0
    /\ progress_bar' = NoBar
    /\ exitCode' = "none"
    /\ exc' = "none"
    /\ excFrom' = "none"
    /\ outcome' = [u \in Names |-> "none"]
    /\ unitErrors' = {}
    /\ tally' = NoTally
    /\ completions' = <<>>
    /\ UNCHANGED <<env, wd, procs, outDir, cacheDirs, invokeVars, barClass, pureVars, allVars>>

TwiceNext ==
    \/ BE_Enter
    \/ BE_Skip
    \/ BE_Begin
    \/ BE_Setup
    \/ Run_NotStarted
    \/ Run_Spawn
    \/ Proc_ExitAny
    \/ Run_Return
    \/ BE_Check
    \/ BE_Except
    \/ BE_Finally
    \/ BE_Finish
    \/ Rerun

TwiceSpec == TwiceInit /\ [][TwiceNext]_vars

\* ------------------------------------------------------------------------
\* The copies of a run over a list of distinct names, one after the other.
\* ------------------------------------------------------------------------
HandlersIdle ==
    /\ BuildIdle
    /\ InvokeIdle
    /\ RerunIdle
    /\ AllIdle
    /\ barClass = "tqdm"

DestInit ==
    /\ HandlersIdle
    /\ TestIdle
    /\ StripIdle
    /\ SelectIdle
    /\ ParseIdle
    /\ dnames \in {q \in [1..DestUnits -> RawNames] :
                       \A x, y \in 1..DestUnits : x # y => q[x] # q[y]}
    /\ dk = 1
    /\ dests = <<>>

\* `dest_pdf = build_examples_dir / f"{example_name}.pdf"; shutil.copy(src_pdf, dest_pdf)`
DS_Copy ==
    /\ dk \in 1..Len(dnames)
    /\ dests' = Append(dests, DestPdf(dnames[dk]))
    /\ dk' = dk + 1
    /\ UNCHANGED <<notDest, dnames>>

DestNext == DS_Copy

DestSpec == DestInit /\ [][DestNext]_vars

\* ------------------------------------------------------------------------
\* run_module_test: per mode a clean, a build, the log and its markers.
\* ------------------------------------------------------------------------
TestInit ==
    /\ HandlersIdle
    /\ DestIdle
    /\ StripIdle
    /\ SelectIdle
    /\ ParseIdle
    /\ tAmbient \in TestAmbientEnvs
    /\ tModes \in ModuleModes
    /\ tk = 1
    /\ tpc = "loop"
    /\ tEnv = <<>>
    /\ tResults = {}
    /\ tExc = "none"
    /\ tCalls = <<>>
    /\ tModule = 0
    /\ matrix_summary = <<>>
    /\ tPrinted = FALSE
    /\ tReturn = NoExit

TMode == tModes[tk]

\* run_latexmk: the exception it ends with, or "none" when it returns. The
\* timeout of subprocess.run raises TimeoutExpired, a nonzero return code
\* is turned into a RuntimeError.
RunLatexmk_Unchecked(rc) == IF rc = "timeout" THEN "TimeoutExpired" ELSE "none"

RunLatexmk(rc) ==
    IF rc = "zero" THEN "none"
    ELSE IF rc = "nonzero" THEN "RuntimeError"
    ELSE "TimeoutExpired"

\* One call of run_latexmk as the child process sees it.
Call(cmd, rc) == [cmd |-> cmd, cwd |-> tModule, env |-> tEnv, rc |-> rc]

\* The head of the loop body: the environment of the mode.
TM_Env ==
    /\ tpc = "loop"
    /\ tk <= Len(tModes)
    /\ tEnv' = TestEnv(tAmbient, TMode)
    /\ tpc' = "clean"
    /\ UNCHANGED <<notTest, tAmbient, tModes, tk, tResults, tExc, tCalls, mainVars>>

\* run_latexmk(LATEXMK_CLEAN, ...): a nonzero exit raises RuntimeError, the
\* timeout of subprocess.run raises TimeoutExpired.
TM_Clean ==
    /\ tpc = "clean"
    /\ \E rc \in {"zero", "nonzero", "timeout"} :
          /\ tCalls' = Append(tCalls, Call("clean", rc))
          /\ IF RunLatexmk(rc) = "none"
             THEN tpc' = "build" /\ UNCHANGED tExc
             ELSE tpc' = "raised" /\ tExc' = RunLatexmk(rc)
    /\ UNCHANGED <<notTest, tAmbient, tModes, tk, tEnv, tResults, mainVars>>

\* run_latexmk(LATEXMK, ...)
TM_Build ==
    /\ tpc = "build"
    /\ \E rc \in {"zero", "nonzero", "timeout"} :
          /\ tCalls' = Append(tCalls, Call("build", rc))
          /\ IF RunLatexmk(rc) = "none"
             THEN tpc' = "log" /\ UNCHANGED tExc
             ELSE tpc' = "raised" /\ tExc' = RunLatexmk(rc)
    /\ UNCHANGED <<notTest, tAmbient, tModes, tk, tEnv, tResults, mainVars>>

\* `if not log_path.exists(): raise FileNotFoundError`
TM_Log ==
    /\ tpc = "log"
    /\ \E exists \in BOOLEAN :
          IF exists
          THEN tpc' = "markers" /\ UNCHANGED tExc
          ELSE tpc' = "raised" /\ tExc' = "FileNotFoundError"
    /\ UNCHANGED <<notTest, tAmbient, tModes, tk, tEnv, tResults, tCalls, mainVars>>

\* ensure_markers, then `results[mode] = "ok"`.
TM_Markers ==
    /\ tpc = "markers"
    /\ \E missing \in BOOLEAN :
          IF missing
          THEN /\ tpc' = "raised"
               /\ tExc' = "AssertionError"
               /\ UNCHANGED <<tk, tResults>>
          ELSE /\ tResults' = tResults \cup {TMode}
               /\ tk' = tk + 1
               /\ tpc' = "loop"
               /\ UNCHANGED tExc
    /\ UNCHANGED <<notTest, tAmbient, tModes, tEnv, tCalls, mainVars>>

\* `return results`
TM_Return ==
    /\ tpc = "loop"
    /\ tk > Len(tModes)
    /\ tpc' = "returned"
    /\ UNCHANGED <<notTest, tAmbient, tModes, tk, tEnv, tResults, tExc, tCalls, mainVars>>

TestNext ==
    \/ TM_Env
    \/ TM_Clean
    \/ TM_Build
    \/ TM_Log
    \/ TM_Markers
    \/ TM_Return

TestSpec == TestInit /\ [][TestNext]_vars

\* ------------------------------------------------------------------------
\* main of run_module_tests.py: run_module_test for each module of
\* TEST_MATRIX in turn, then the summary.
\* ------------------------------------------------------------------------
\* The modes of core-base, code-listings, graphics, glossary, bibliography.
TestMatrix ==
    << <<"dev", "prod", "ultra">>, <<"dev", "ultra">>, <<"ultra">>,
       <<"dev">>, <<"dev">> >>

MatrixInit ==
    /\ HandlersIdle
    /\ DestIdle
    /\ StripIdle
    /\ SelectIdle
    /\ ParseIdle
    /\ tAmbient \in TestAmbientEnvs
    /\ tModule = 1
    /\ tModes = TestMatrix[1]
    /\ tk = 1
    /\ tpc = "loop"
    /\ tEnv = <<>>
    /\ tResults = {}
    /\ tExc = "none"
    /\ tCalls = <<>>
    /\ matrix_summary = <<>>
    /\ tPrinted = FALSE
    /\ tReturn = NoExit

\* `matrix_summary[module.name] = run_module_test(module)`, then the next
\* module, or the end of the loop.
MN_Record ==
    /\ tpc = "returned"
    /\ tModule >= 1
    /\ matrix_summary' = Append(matrix_summary, tResults)
    /\ IF tModule < Len(TestMatrix)
       THEN /\ tModule' = tModule + 1
            /\ tModes' = TestMatrix[tModule + 1]
            /\ tk' = 1
            /\ tResults' = {}
            /\ tpc' = "loop"
       ELSE /\ tpc' = "summary"
            /\ UNCHANGED <<tModule, tModes, tk, tResults>>
    /\ UNCHANGED <<notTest, tAmbient, tEnv, tExc, tCalls, tPrinted, tReturn>>

\* `print(json.dumps(matrix_summary, ...)); return 0`
MN_Summary ==
    /\ tpc = "summary"
    /\ tPrinted' = TRUE
    /\ tReturn' = 0
    /\ tpc' = "exit"
    /\ UNCHANGED <<notTest, tAmbient, tModes, tk, tEnv, tResults, tExc, tCalls,
                   tModule, matrix_summary>>

MatrixNext ==
    \/ TestNext
    \/ MN_Record
    \/ MN_Summary

MatrixSpec == MatrixInit /\ [][MatrixNext]_vars

\* ------------------------------------------------------------------------
\* BuildTasks.build_all: build_root, then build_examples, which hands the
\* discovered names to build_example.
\* ------------------------------------------------------------------------
\* discover_examples returns the sorted directories that hold a main.tex.
Sorted(fs) == \A x, y \in 1..Len(fs) : x < y => fs[x] < fs[y]

Discovered(fs, kd) ==
    /\ Sorted(fs)
    /\ \A u \in Range(fs) : kd[u] \notin {"nodir", "notex"}

AllInit ==
    /\ command = "build_all"
    /\ files \in InjSeqs(Names)
    /\ verbose \in BOOLEAN
    /\ examplesDir = TRUE
    /\ kind \in [Names -> Kinds]
    /\ \A u \in Names : u \notin Range(files) => kind[u] = "pdf"
    /\ Discovered(files, kind)
    /\ pc = "idle"
    /\ i = 0
    /\ invokeBound = FALSE
    /\ successful_builds = 0
    /\ progress_bar = NoBar
    /\ procs = {}
    /\ exitCode = "none"
    /\ exc = "none"
    /\ excFrom = "none"
    /\ outcome = [u \in Names |-> "none"]
    /\ unitErrors = {}
    /\ outDir = {}
    /\ tally = NoTally
    /\ completions = <<>>
    /\ cacheDirs = {}
    /\ cwd = StartDir
    /\ prev_cwd = StartDir
    /\ InvokeIdle
    /\ RerunIdle
    /\ PureIdle
    /\ barClass = "tqdm"
    /\ apc = "start"
    /\ rootKind \in RootKinds
    /\ rootProc = FALSE
    /\ rootReturned = FALSE
    /\ examplesCalled = FALSE
    /\ aexc = "none"

\* build_root up to the start of the compiler: the test for main.tex, the
\* mkdir of the cache directory (outside any try), the call of run.
BA_Root ==
    /\ apc = "start"
    /\ IF rootKind = "nomain"
       THEN /\ apc' = "examples"
            /\ rootReturned' = TRUE
            /\ UNCHANGED <<rootProc, aexc>>
       ELSE IF rootKind = "mkdirErr"
       THEN /\ apc' = "aborted"
            /\ aexc' = "OSError"
            /\ UNCHANGED <<rootProc, rootReturned>>
       ELSE IF rootKind \in {"notfound", "runRaise"}
       THEN LET e == IF rootKind = "notfound" THEN "FileNotFoundError" ELSE "OSError"
            IN  IF RunnerCatches(e)
                THEN /\ apc' = "examples"
                     /\ rootReturned' = TRUE
                     /\ UNCHANGED <<rootProc, aexc>>
                ELSE /\ apc' = "aborted"
                     /\ aexc' = e
                     /\ UNCHANGED <<rootProc, rootReturned>>
       ELSE /\ rootProc' = TRUE
            /\ apc' = "rootWait"
            /\ UNCHANGED <<rootReturned, aexc>>
    /\ UNCHANGED <<buildVars, invokeVars, barClass, rerunVars, pureVars,
                   rootKind, examplesCalled>>

\* The compiler of the root document ends.
BA_RootExit ==
    /\ apc = "rootWait"
    /\ rootProc
    /\ rootProc' = FALSE
    /\ UNCHANGED <<buildVars, invokeVars, barClass, rerunVars, pureVars,
                   apc, rootKind, rootReturned, examplesCalled, aexc>>

\* subprocess.run returns or raises CalledProcessError, which run catches;
\* build_root returns.
BA_RootReturn ==
    /\ apc = "rootWait"
    /\ ~rootProc
    /\ rootKind = "fail" => RunnerCatches("CalledProcessError")
    /\ apc' = "examples"
    /\ rootReturned' = TRUE
    /\ UNCHANGED <<buildVars, invokeVars, barClass, rerunVars, pureVars,
                   rootKind, rootProc, examplesCalled, aexc>>

\* build_examples: nothing discovered, or the call of build_example.
BA_Examples ==
    /\ apc = "examples"
    /\ examplesCalled' = TRUE
    /\ IF files = <<>>
       THEN apc' = "done" /\ UNCHANGED pc
       ELSE apc' = "building" /\ pc' = "start"
    /\ UNCHANGED <<env, i, invokeBound, successful_builds, progress_bar, procs,
                   exitCode, exc, excFrom, outcome, unitErrors, outDir, tally,
                   completions, cacheDirs, wd>>
    /\ UNCHANGED <<invokeVars, barClass, rerunVars, pureVars,
                   rootKind, rootProc, rootReturned, aexc>>

\* build_example has returned, or an exception has left it.
BA_Finish ==
    /\ apc = "building"
    /\ pc \in {"done", "aborted"}
    /\ IF pc = "done"
       THEN apc' = "done" /\ UNCHANGED aexc
       ELSE apc' = "aborted" /\ aexc' = exc
    /\ UNCHANGED <<buildVars, invokeVars, barClass, rerunVars, pureVars,
                   rootKind, rootProc, rootReturned, examplesCalled>>

\* Every discovered unit has its directory and its main.tex: the skip paths
\* of build_example are not taken.
AllNext ==
    \/ BA_Root
    \/ BA_RootExit
    \/ BA_RootReturn
    \/ BA_Examples
    \/ BA_Finish
    \/ BE_Enter
    \/ BE_Begin
    \/ BE_Setup
    \/ Run_NotStarted
    \/ Run_Spawn
    \/ Proc_ExitAny
    \/ Run_Return
    \/ BE_Check
    \/ BE_Except
    \/ BE_Finally
    \/ BE_Finish

AllSpec == AllInit /\ [][AllNext]_vars

\* ------------------------------------------------------------------------
\* BuildTasks.clean_example, and the working directory of both handlers
\* that enter the directory of a unit.
\* ------------------------------------------------------------------------
\* clean_example probes the directory of the unit only.
CleanKinds == {"nodir", "setupErr", "runRaise", "pdf"}

CwdInit ==
    /\ command \in {"build_example", "clean_example"}
    /\ files \in InjSeqs(Names)
    /\ verbose \in BOOLEAN
    /\ examplesDir = TRUE
    /\ kind \in [Names -> Kinds]
    /\ \A u \in Names : u \notin Range(files) => kind[u] = "pdf"
    /\ command = "clean_example" => \A u \in Names : kind[u] \in CleanKinds
    /\ command = "clean_example" => ~verbose
    /\ pc = "start"
    /\ i = 0
    /\ invokeBound = FALSE
    /\ successful_builds = 0
    /\ progress_bar = NoBar
    /\ procs = {}
    /\ exitCode = "none"
    /\ exc = "none"
    /\ excFrom = "none"
    /\ outcome = [u \in Names |-> "none"]
    /\ unitErrors = {}
    /\ outDir = {}
    /\ tally = NoTally
    /\ completions = <<>>
    /\ cacheDirs = {}
    /\ cwd = StartDir
    /\ prev_cwd = StartDir
    /\ InvokeIdle
    /\ RerunIdle
    /\ AllIdle
    /\ PureIdle
    /\ barClass = "tqdm"

\* `if not files: ... return`
CE_Enter ==
    /\ pc = "start"
    /\ command = "clean_example"
    /\ IF files = <<>>
       THEN /\ unitErrors' = unitErrors \cup {"no_name"}
            /\ pc' = "returned"
            /\ UNCHANGED i
       ELSE /\ i' = 1
            /\ pc' = "cloop"
            /\ UNCHANGED unitErrors
    /\ UNCHANGED <<aux, env, wd, cacheDirs, invokeBound, successful_builds,
                   progress_bar, procs, exitCode, exc, excFrom, outcome, outDir,
                   tally, completions>>

\* `if not example_dir.exists(): ... continue`
CE_Skip ==
    /\ pc = "cloop"
    /\ i <= Len(files)
    /\ ~DirExists(Unit)
    /\ outcome' = [outcome EXCEPT ![Unit] = "skipped"]
    /\ i' = i + 1
    /\ completions' = Append(completions, Unit)
    /\ UNCHANGED <<aux, env, wd, cacheDirs, pc, invokeBound, successful_builds,
                   progress_bar, procs, exitCode, exc, excFrom, unitErrors,
                   outDir, tally>>

\* `with working_directory(example_dir): cmd = ...`: os.chdir raises, or the
\* directory is entered and `cmd` is bound.
CE_With ==
    /\ pc = "cloop"
    /\ i <= Len(files)
    /\ DirExists(Unit)
    /\ IF SetupOk(Unit)
       THEN /\ prev_cwd' = cwd
            /\ cwd' = ExampleDir(Unit)
            /\ invokeBound' = TRUE
            /\ pc' = "invoke"
            /\ UNCHANGED <<exc, excFrom>>
       ELSE /\ exc' = "OSError"
            /\ excFrom' = "setup"
            /\ pc' = "cexcept"
            /\ UNCHANGED <<wd, invokeBound>>
    /\ UNCHANGED <<aux, env, cacheDirs, i, successful_builds, progress_bar,
                   procs, exitCode, outcome, unitErrors, outDir, tally,
                   completions>>

\* run has returned: `self.ui.success(f"Cleaned {example_name}")`
CE_Cleaned ==
    /\ pc = "cleaned"
    /\ outcome' = [outcome EXCEPT ![Unit] = "cleaned"]
    /\ i' = i + 1
    /\ exitCode' = "none"
    /\ unitErrors' = {}
    /\ pc' = "cloop"
    /\ completions' = Append(completions, Unit)
    /\ UNCHANGED <<aux, env, wd, cacheDirs, invokeBound, successful_builds,
                   progress_bar, procs, exc, excFrom, outDir, tally>>

\* The except clause of clean_example; its first statement reads `cmd`,
\* which is bound inside the with block only.
CE_Except ==
    /\ pc = "cexcept"
    /\ IF CleanExampleCatches(exc) /\ invokeBound
       THEN /\ outcome' = [outcome EXCEPT ![Unit] = "failed"]
            /\ exc' = "none"
            /\ excFrom' = "none"
            /\ i' = i + 1
            /\ exitCode' = "none"
            /\ unitErrors' = {}
            /\ pc' = "cloop"
       ELSE /\ exc' = IF CleanExampleCatches(exc) THEN "UnboundLocalError" ELSE exc
            /\ excFrom' = IF CleanExampleCatches(exc) THEN "handler" ELSE excFrom
            /\ pc' = "aborted"
            /\ UNCHANGED <<outcome, i, exitCode, unitErrors>>
    /\ completions' = Append(completions, Unit)
    /\ UNCHANGED <<aux, env, wd, cacheDirs, invokeBound, successful_builds,
                   progress_bar, procs, outDir, tally>>

\* The list is exhausted.
CE_Finish ==
    /\ pc = "cloop"
    /\ i > Len(files)
    /\ pc' = "done"
    /\ UNCHANGED <<aux, env, wd, cacheDirs, i, invokeBound, successful_builds,
                   progress_bar, procs, exitCode, exc, excFrom, outcome,
                   unitErrors, outDir, tally, completions>>

CwdNext ==
    \/ BE_Enter
    \/ BE_Skip
    \/ BE_Begin
    \/ BE_Setup
    \/ Run_NotStarted
    \/ Run_Spawn
    \/ Proc_ExitAny
    \/ Run_Return
    \/ BE_Check
    \/ BE_Except
    \/ BE_Finally
    \/ BE_Finish
    \/ CE_Enter
    \/ CE_Skip
    \/ CE_With
    \/ CE_Cleaned
    \/ CE_Except
    \/ CE_Finish

CwdSpec == CwdInit /\ [][CwdNext]_vars

\* ------------------------------------------------------------------------
\* strip_braces applied to a value.
\* ------------------------------------------------------------------------
StripInit ==
    /\ HandlersIdle
    /\ DestIdle
    /\ TestIdle
    /\ SelectIdle
    /\ ParseIdle
    /\ sValue \in Strings
    /\ sResult = <<>>
    /\ spc = "call"

SB_Call ==
    /\ spc = "call"
    /\ sResult' = strip_braces(sValue)
    /\ spc' = "returned"
    /\ UNCHANGED <<notStrip, sValue>>

StripNext == SB_Call

StripSpec == StripInit /\ [][StripNext]_vars


\* ------------------------------------------------------------------------
\* tools/build_examples_select.py: run_builds starts one
\* "build.py --mode <mode> build-example <name>" subprocess per selection.
\* Each subprocess is a fresh run of build.py on one name, so its result is
\* the loop body of build_example applied with `invoke` unbound.
\* ------------------------------------------------------------------------
\* The environments a selected example can be in.
SelectKinds == {"nodir", "setupErr", "nopdf", "pdf"}

\* Exit statuses of the interpreter.
ExitOk == 0
ExitUncaught == 1
ExitUsage == 2

\* Exit status of "build.py build-example <name>": the argument parser
\* rejects a name that looks like an option, an exception that leaves
\* main() ends the interpreter, and a handler that returns ends it normally.
BuildPyExit(u, dash) ==
    IF dash THEN ExitUsage
    ELSE IF UnitOutcome(u, FALSE) = "raised" THEN ExitUncaught
    ELSE ExitOk

\* The code run_builds gives to sys.exit.
ExitWith_One(returncode) == ExitUncaught

ExitWith(returncode) == returncode

notSelect == <<handlerVars, destVars, testVars, stripVars, parseVars>>

SelectInit ==
    /\ BuildRest
    /\ kind \in [Names -> SelectKinds]
    /\ InvokeIdle
    /\ RerunIdle
    /\ AllIdle
    /\ barClass = "tqdm"
    /\ DestIdle
    /\ TestIdle
    /\ StripIdle
    /\ ParseIdle
    /\ rSelections \in InjSeqs(Names)
    /\ dashed \in SUBSET Names
    /\ rk = 1
    /\ rpc = "enter"
    /\ rStarted = <<>>
    /\ rCodes = <<>>
    /\ rReported = {}
    /\ rExit = NoExit

\* `if not selections: ...; return`
RB_Empty ==
    /\ rpc = "enter"
    /\ rSelections = <<>>
    /\ rpc' = "done"
    /\ UNCHANGED <<rSelections, dashed, rk, rStarted, rCodes, rReported, rExit>>
    /\ UNCHANGED notSelect

RB_Enter ==
    /\ rpc = "enter"
    /\ rSelections # <<>>
    /\ rpc' = "loop"
    /\ UNCHANGED <<rSelections, dashed, rk, rStarted, rCodes, rReported, rExit>>
    /\ UNCHANGED notSelect

\* subprocess.run starts the build of the selection in hand and waits.
RB_Start ==
    /\ rpc = "loop"
    /\ rk <= Len(rSelections)
    /\ rStarted' = Append(rStarted, rSelections[rk])
    /\ rpc' = "wait"
    /\ UNCHANGED <<rSelections, dashed, rk, rCodes, rReported, rExit>>
    /\ UNCHANGED notSelect

\* The subprocess ends; subprocess.run returns its code.
RB_ChildExit ==
    /\ rpc = "wait"
    /\ rCodes' = Append(rCodes,
                        BuildPyExit(rSelections[rk], rSelections[rk] \in dashed))
    /\ rpc' = "check"
    /\ UNCHANGED <<rSelections, dashed, rk, rStarted, rReported, rExit>>
    /\ UNCHANGED notSelect

\* `if completed.returncode != 0:` print the error and sys.exit.
RB_Fail ==
    /\ rpc = "check"
    /\ rCodes[rk] # 0
    /\ rReported' = rReported \cup {rSelections[rk]}
    /\ rExit' = ExitWith(rCodes[rk])
    /\ rpc' = "exited"
    /\ UNCHANGED <<rSelections, dashed, rk, rStarted, rCodes>>
    /\ UNCHANGED notSelect

RB_NextSel ==
    /\ rpc = "check"
    /\ rCodes[rk] = 0
    /\ rk' = rk + 1
    /\ rpc' = "loop"
    /\ UNCHANGED <<rSelections, dashed, rStarted, rCodes, rReported, rExit>>
    /\ UNCHANGED notSelect

\* The loop is exhausted; run_builds returns.
RB_Finish ==
    /\ rpc = "loop"
    /\ rk > Len(rSelections)
    /\ rpc' = "done"
    /\ UNCHANGED <<rSelections, dashed, rk, rStarted, rCodes, rReported, rExit>>
    /\ UNCHANGED notSelect

SelectNext ==
    \/ RB_Empty
    \/ RB_Enter
    \/ RB_Start
    \/ RB_ChildExit
    \/ RB_Fail
    \/ RB_NextSel
    \/ RB_Finish

SelectSpec == SelectInit /\ [][SelectNext]_vars


\* ------------------------------------------------------------------------
\* tools/build_examples_select.py: main and parse_selection. A line is a
\* sequence of characters; the names are the units in listed order.
\* ------------------------------------------------------------------------
SelLen == 5

Digits == {"0", "1", "2"}

SelChars == Digits \cup {",", ";", " ", "*"}

Selections == UNION {[1..n -> SelChars] : n \in 0..SelLen}

\* Exit statuses of the selector's main.
ExitNoExamples == 1
ExitBadSelection == 2
ExitInterrupted == 130

\* `selection.replace(";", ",")`
ReplaceSemi(v) == [k \in 1..Len(v) |-> IF v[k] = ";" THEN "," ELSE v[k]]

\* `.split(",")`: the pieces between the commas, empty pieces included.
RECURSIVE SplitComma(_)
SplitComma(v) ==
    IF \A k \in 1..Len(v) : v[k] # "," THEN <<v>>
    ELSE LET c == CHOOSE k \in 1..Len(v) :
                      v[k] = "," /\ \A j \in 1..(k - 1) : v[j] # ","
         IN  <<SubSeq(v, 1, c - 1)>> \o SplitComma(SubSeq(v, c + 1, Len(v)))

\* int(token) of a stripped token: a decimal numeral, or ValueError.
IsInt(t) == t # <<>> /\ \A k \in 1..Len(t) : t[k] \in Digits

DigitVal(c) == CASE c = "0" -> 0 [] c = "1" -> 1 [] c = "2" -> 2

RECURSIVE IntOf(_)
IntOf(t) ==
    IF t = <<>> THEN 0
    ELSE 10 * IntOf(SubSeq(t, 1, Len(t) - 1)) + DigitVal(t[Len(t)])

\* `index < 1 or index > len(names)` does not hold.
InRange_UpperOnly(index, n) == index <= n

InRange(index, n) == index >= 1 /\ index <= n

\* `names[j]` of a Python list: a negative j counts from the end.
At(list, j) == IF j >= 0 THEN list[j + 1] ELSE list[Len(list) + j + 1]

\* The first loop of parse_selection from token k on: the list `chosen`, or
\* the ValueError that leaves the function with nothing returned.
RECURSIVE ChooseFrom(_, _, _, _)
ChooseFrom(tokens, k, acc, list) ==
    IF k > Len(tokens) THEN [raised |-> FALSE, value |-> acc]
    ELSE LET token == Strip(tokens[k])
         IN  IF token = <<>> THEN ChooseFrom(tokens, k + 1, acc, list)
             ELSE IF ~IsInt(token) THEN [raised |-> TRUE, value |-> <<>>]
             ELSE IF ~InRange(IntOf(token), Len(list))
                  THEN [raised |-> TRUE, value |-> <<>>]
             ELSE ChooseFrom(tokens, k + 1,
                             Append(acc, At(list, IntOf(token) - 1)), list)

\* The second loop: each name kept where it first occurs.
Ordered_All(list) == list

RECURSIVE Ordered(_)
Ordered(list) ==
    IF list = <<>> THEN <<>>
    ELSE LET front == SubSeq(list, 1, Len(list) - 1)
             last == list[Len(list)]
         IN  IF \E k \in 1..Len(front) : front[k] = last
             THEN Ordered(front)
             ELSE Append(Ordered(front), last)

parse_selection(sel, list) ==
    LET stripped == Strip(sel)
    IN  IF stripped = <<>> THEN [raised |-> FALSE, value |-> <<>>]
        ELSE IF stripped = <<"*">> THEN [raised |-> FALSE, value |-> list]
        ELSE LET res == ChooseFrom(SplitComma(ReplaceSemi(stripped)), 1,
                                   <<>>, list)
             IN  IF res.raised THEN res
                 ELSE [raised |-> FALSE, value |-> Ordered(res.value)]

notParse == <<handlerVars, destVars, testVars, stripVars, selectVars>>

ParseInit ==
    /\ HandlersIdle
    /\ DestIdle
    /\ TestIdle
    /\ StripIdle
    /\ SelectIdle
    /\ \E n \in 0..NumUnits : names = [k \in 1..n |-> k]
    /\ selection \in Selections
    /\ mpc = "start"
    /\ chosen = <<>>
    /\ raised = FALSE
    /\ mExit = NoExit
    /\ buildsCalled = FALSE

\* `if not examples: ...; sys.exit(1)`
PM_NoExamples ==
    /\ mpc = "start"
    /\ names = <<>>
    /\ mExit' = ExitNoExamples
    /\ mpc' = "exited"
    /\ UNCHANGED <<names, selection, chosen, raised, buildsCalled>>
    /\ UNCHANGED notParse

\* input() is interrupted from the keyboard.
PM_Interrupt ==
    /\ mpc = "start"
    /\ names # <<>>
    /\ mExit' = ExitInterrupted
    /\ mpc' = "exited"
    /\ UNCHANGED <<names, selection, chosen, raised, buildsCalled>>
    /\ UNCHANGED notParse

\* input() returns the line and parse_selection is applied to it.
PM_Parse ==
    /\ mpc = "start"
    /\ names # <<>>
    /\ LET res == parse_selection(selection, names)
       IN  /\ chosen' = res.value
           /\ raised' = res.raised
    /\ mpc' = "parsed"
    /\ UNCHANGED <<names, selection, mExit, buildsCalled>>
    /\ UNCHANGED notParse

\* `except ValueError as exc: ...; sys.exit(2)`
PM_BadSelection ==
    /\ mpc = "parsed"
    /\ raised
    /\ mExit' = ExitBadSelection
    /\ mpc' = "exited"
    /\ UNCHANGED <<names, selection, chosen, raised, buildsCalled>>
    /\ UNCHANGED notParse

\* `run_builds(root, args.mode, chosen)`
PM_RunBuilds ==
    /\ mpc = "parsed"
    /\ ~raised
    /\ buildsCalled' = TRUE
    /\ mpc' = "builds"
    /\ UNCHANGED <<names, selection, chosen, raised, mExit>>
    /\ UNCHANGED notParse

ParseNext ==
    \/ PM_NoExamples
    \/ PM_Interrupt
    \/ PM_Parse
    \/ PM_BadSelection
    \/ PM_RunBuilds

ParseSpec == ParseInit /\ [][ParseNext]_vars

\* ------------------------------------------------------------------------
\* Properties
\* ------------------------------------------------------------------------
InExample == command = "build_example"

\* run has returned to its caller for the current unit.
RunReturned == exitCode \in {"zero", "nonzero", "notfound"}

Ended == pc \in {"done", "aborted"}

\* C1 (as stated): once the compiler invocation of a unit has returned, the
\* unit is classified as succeeded if and only if main.pdf exists in its
\* directory.
C1_SuccessIffArtifact ==
    (InExample /\ pc = "finally" /\ RunReturned)
        => (outcome[Unit] = "succeeded" <=> PdfPresent(Unit))

\* C1 (amended): once the compiler invocation of a unit has returned, the
\* unit is classified as succeeded if and only if main.pdf exists in its
\* directory and the copy into the output directory succeeded, whatever the
\* exit status was; a unit counted as succeeded always has its artifact.
C1_SuccessIffArtifactCopied ==
    /\ (InExample /\ pc = "finally" /\ RunReturned)
          => /\ outcome[Unit] = "succeeded"
                    <=> (PdfPresent(Unit) /\ CopyOk(Unit))
             /\ outcome[Unit] \in {"succeeded", "failed"} \/ exc # "none"
    /\ InExample
          => \A u \in Names :
                outcome[u] = "succeeded" => PdfPresent(u) /\ u \in outDir

\* A compiler that exits nonzero and leaves the artifact: success.
C1_Witness ==
    /\ InExample /\ pc = "finally"
    /\ exitCode = "nonzero"
    /\ PdfPresent(Unit)
    /\ outcome[Unit] = "succeeded"

\* C2: no error raised while handling a unit leaves build_example; the run
\* is never ended by an exception.
C2_NoErrorPropagates == pc # "aborted"

\* C3: when the run over N units has ended, exactly N units have been
\* handled, each name of the list once, and the tally has denominator N.
C3_EachUnitOnce ==
    (InExample /\ Ended)
        => /\ Len(completions) = Len(files)
           /\ \A u \in Range(files) :
                 Cardinality({k \in DOMAIN completions : completions[k] = u}) = 1
           /\ tally # NoTally
           /\ tally[2] = Len(files)

\* C4: a unit whose artifact exists and whose copy raises is classified as
\* failed, is not counted, has the error reported, and the exception is
\* consumed so that the loop goes on.
C4_CopyFailureIsFailure ==
    /\ (InExample /\ excFrom = "copy") => pc = "except" /\ invokeBound
    /\ (InExample /\ pc = "finally" /\ RunReturned
          /\ PdfPresent(Unit) /\ ~CopyOk(Unit))
          => /\ outcome[Unit] = "failed"
             /\ "build_failed" \in unitErrors
             /\ Unit \notin outDir
             /\ exc = "none"
    /\ InExample
          => successful_builds
                 = Cardinality({u \in Names : outcome[u] = "succeeded"})

\* A run that went on after a copy failure and built a later unit.
C4_Witness ==
    /\ InExample /\ pc = "done"
    /\ \E k, m \in DOMAIN files :
          /\ k < m
          /\ kind[files[k]] = "copyFail"
          /\ outcome[files[k]] = "failed"
          /\ outcome[files[m]] = "succeeded"

\* C5: the tally X/Y has Y = number of submitted units and X = number of
\* units whose artifact was produced and placed in the output directory;
\* for the units 1, 2, 3 of which only 2 leaves no artifact it is 2/3.
C5_Tally ==
    (InExample /\ tally # NoTally)
        => /\ tally[2] = Len(files)
           /\ tally[1] = Cardinality({u \in Range(files) :
                                         PdfPresent(u) /\ u \in outDir})
           /\ 0 <= tally[1] /\ tally[1] <= tally[2]
           /\ (/\ files = <<1, 2, 3>>
               /\ kind[1] = "pdf" /\ kind[2] = "nopdf" /\ kind[3] = "pdf")
                  => tally = <<2, 3>>

C5_Witness ==
    /\ InExample
    /\ files = <<1, 2, 3>>
    /\ kind[1] = "pdf" /\ kind[2] = "nopdf" /\ kind[3] = "pdf"
    /\ tally = <<2, 3>>


\* C6: CommandRunner.run never raises because of the external program: a
\* nonzero exit and a program that cannot be located or started are reported
\* through the UI and run returns to its caller.
C6_RunNeverRaises ==
    /\ excFrom # "run"
    /\ (pc \in {"check", "tbuilt"} /\ exitCode = "nonzero")
          => "exit_nonzero" \in unitErrors
    /\ (pc \in {"check", "tbuilt"} /\ exitCode = "notfound")
          => "not_found" \in unitErrors

\* The units between the start of their compiler invocation and their
\* completion, and the compiler processes still alive.
Active ==
    procs \cup (IF pc \in {"wait", "check", "except", "finally", "tbuilt", "texcept"}
                THEN {Unit} ELSE {})

\* C7: the number of simultaneously active units never exceeds the
\* concurrency limit J, for every J >= 1 (the loop handles one unit at a
\* time, so the bound holds already for J = 1).
C7_ConcurrencyBound ==
    \A J \in 1..NumUnits : Cardinality(Active) <= J

\* The compiler of the second unit runs after the first unit has completed.
C7_Witness ==
    /\ InExample
    /\ pc = "wait"
    /\ i = 2
    /\ procs = {Unit}
    /\ completions = <<files[1]>>

C8_Counts ==
    progress_bar.made
        => /\ progress_bar.total = Len(files)
           /\ progress_bar.current = Len(completions)
           /\ \A a, b \in DOMAIN completions :
                 a # b => completions[a] # completions[b]
           /\ progress_bar.current <= progress_bar.total
           /\ progress_bar.closed => progress_bar.current = progress_bar.total

C8_Step ==
    progress_bar.made
        => /\ progress_bar'.made
           /\ progress_bar'.current >= progress_bar.current
           /\ progress_bar'.current <= progress_bar.current + 1

\* C8: the completed count of the tracker never decreases, is incremented
\* once per unit whose handling ends (skipped, failed or succeeded), never
\* exceeds the total, and equals the total when the tracker is closed.
C8_ProgressCount == [](C8_Counts) /\ [][C8_Step]_vars

\* A closed tracker after a skipped, a failed and a succeeded unit.
C8_Witness ==
    /\ progress_bar.closed
    /\ progress_bar.current = progress_bar.total
    /\ \E a, b, c \in Range(files) :
          /\ outcome[a] = "skipped"
          /\ outcome[b] = "failed"
          /\ outcome[c] = "succeeded"


\* The run of the state machine ends as the fold over its list says.
FoldAgrees ==
    (InExample /\ Ended)
        => /\ RunResult(files).class = outcome
           /\ RunResult(files).built = successful_builds
           /\ RunResult(files).raised <=> pc = "aborted"

\* C9: the result of a run does not depend on the order of the list: every
\* ordering of the same units, with the same per-unit behaviour, yields the
\* success count and the per-unit classification this run ended with.
C9_OrderIndependent ==
    (InExample /\ Ended)
        => \A q \in Perms(files) :
              /\ RunResult(q).class = outcome
              /\ RunResult(q).built = successful_builds

\* C10: every compiler invocation terminating, a run that has entered the
\* loop handles every unit of the list and emits the final tally.
C10_RunsToCompletion ==
    (InExample /\ pc = "loop")
        ~> (tally # NoTally /\ Len(completions) = Len(files))


\* The call in hand was assembled by build_example.
FromExample == ipc \in {"assembled", "merged"} /\ "TEXINPUTS" \in DOMAIN extra_env

\* C11: the TEXINPUTS override of a unit holds the repository root and the
\* unit's own directory, both before the ambient TEXINPUTS value when one
\* is set.
C11_TexInputsPrepended ==
    FromExample =>
        LET tx  == extra_env["TEXINPUTS"]
            cur == Get(ambient, "TEXINPUTS", EmptyStr)
        IN  \E r, d \in DOMAIN tx :
               /\ tx[r] = RepoRoot
               /\ tx[d] = UnitDir(exampleName)
               /\ cur # EmptyStr =>
                     \E k \in DOMAIN tx :
                        /\ r < k /\ d < k
                        /\ k + Len(cur) - 1 <= Len(tx)
                        /\ SubSeq(tx, k, k + Len(cur) - 1) = cur

\* C12: the command of a unit holds the non-interactive flag, ends with the
\* main entry file, and holds -g exactly when OMNILATEX_FORCE_REBUILD is "1"
\* in the ambient environment.
C12_CommandLine ==
    FromExample =>
        /\ "-interaction=nonstopmode" \in Range(invoke)
        /\ invoke[Len(invoke)] = "main.tex"
        /\ "-g" \in Range(invoke)
              <=> /\ "OMNILATEX_FORCE_REBUILD" \in DOMAIN ambient
                  /\ ambient["OMNILATEX_FORCE_REBUILD"] = Val("1")

\* A forced rebuild with both rc files.
C12_Witness ==
    /\ FromExample
    /\ rootRcExists /\ localRcExists
    /\ "-g" \in Range(invoke)
    /\ Len(invoke) = 8

C13_ChildEnv ==
    ipc = "merged" =>
        /\ DOMAIN childEnv = DOMAIN ambient \cup DOMAIN extra_env \cup {"BUILD_MODE"}
        /\ \A k \in DOMAIN extra_env : childEnv[k] = extra_env[k]
        /\ "BUILD_MODE" \notin DOMAIN extra_env
              => childEnv["BUILD_MODE"] = Val(build_mode)
        /\ \A k \in DOMAIN ambient :
              (k \notin DOMAIN extra_env /\ k # "BUILD_MODE")
                 => childEnv[k] = ambient[k]

\* C13: the child's environment is the ambient one with the overrides on
\* top: extra_env wins, BUILD_MODE is the runner's mode unless extra_env sets
\* it, the other variables keep their ambient value; the environment of the
\* parent is never changed.
C13_EnvMerged == [](C13_ChildEnv) /\ [][ambient' = ambient]_vars

\* Overrides that replace ambient values, among them BUILD_MODE itself.
C13_Witness ==
    /\ ipc = "merged"
    /\ "BUILD_MODE" \in DOMAIN extra_env
    /\ "BUILD_MODE" \in DOMAIN ambient
    /\ ambient["BUILD_MODE"] # childEnv["BUILD_MODE"]
    /\ childEnv["BUILD_MODE"] # Val(build_mode)
    /\ "LC_ALL" \in DOMAIN ambient


\* C14: the rendering of progress has no effect on what a run produces: with
\* or without a progress bar, of either class, a run of build_example ends
\* with the classification, the copied artifacts and the tally that the list
\* and the behaviour of its units alone determine.
C14_ProgressNoEffect ==
    /\ (InExample /\ Ended) =>
          LET r == RunResult(files)
          IN  /\ outcome = r.class
              /\ outDir = {u \in Names : r.class[u] = "succeeded"}
              /\ tally = IF r.raised THEN NoTally ELSE Tally(r.built, files)
    /\ (InExample /\ pc = "returned") =>
          /\ outcome = [u \in Names |-> "none"]
          /\ outDir = {}
          /\ tally = NoTally

\* A run that drove a SimpleProgressBar over skipped, failed and built units.
C14_Witness ==
    /\ InExample /\ pc = "done"
    /\ barClass = "SimpleProgressBar"
    /\ BarLines(barClass, progress_bar, Len(files)) = 1 + 2 * Len(files)
    /\ \E a, b, c \in Range(files) :
          /\ outcome[a] = "skipped"
          /\ outcome[b] = "failed"
          /\ outcome[c] = "succeeded"


\* C15: a second call of build_example over the same units, with the sources
\* unchanged and the compiler behaving as before, reports for every unit the
\* classification the first call reported.
C15_SameClassificationTwice ==
    (runNo = 2 /\ pc \in {"done", "aborted", "returned"})
        => outcome = firstOutcome

\* The second call has ended after rebuilding a unit whose cache directories
\* and artifact the first call had left behind, next to a failed unit.
C15_Witness ==
    /\ runNo = 2 /\ pc = "done"
    /\ \E a, b \in Range(files) :
          /\ firstOutcome[a] = "succeeded" /\ a \in cacheDirs /\ a \in outDir
          /\ firstOutcome[b] = "failed"


\* C16: no two units of a run write the same file of the output directory:
\* the names of a list being distinct, the destinations of their copies are
\* distinct.
C16_DistinctDestinations ==
    \A x, y \in DOMAIN dests :
        dnames[x] # dnames[y] => dests[x] # dests[y]


\* C17: every latexmk call of run_module_test for a mode is made with
\* BUILD_MODE equal to that mode in the child environment, whatever the
\* environment of the test runner.
C17_BuildModeIsMode ==
    tpc \in {"clean", "build", "log", "markers"}
        => tEnv["BUILD_MODE"] = Val(TMode)


\* C18: build_all builds the root document first and the examples afterwards:
\* no compiler of an example runs before build_root has returned, and
\* build_all never ends without having called build_examples, whether the
\* root build succeeded or not.
C18_RootThenExamples ==
    /\ procs # {} => (rootReturned /\ ~rootProc)
    /\ examplesCalled => rootReturned
    /\ apc \in {"done", "aborted"} => examplesCalled


\* The handler is outside the with block of working_directory.
OutsideWith == pc \notin {"invoke", "wait"}

\* C19: working_directory changes the working directory only for the time
\* of its with block: whenever build_example or clean_example is outside the
\* block, having left it normally or by an exception, the working directory
\* is the one the run started in; inside, it is the directory of the unit.
C19_CwdRestored ==
    /\ OutsideWith => cwd = StartDir
    /\ ~OutsideWith => (cwd = ExampleDir(Unit) /\ prev_cwd = StartDir)

\* Two units are behind: the block of the first was left normally, that of
\* the second by the OSError run raised.
C19_Witness ==
    /\ command = "build_example"
    /\ pc = "loop" /\ i = 3
    /\ outcome[files[1]] = "succeeded"
    /\ kind[files[2]] = "runRaise" /\ outcome[files[2]] = "failed"
    /\ cwd = StartDir


\* The index of the "}" that closes the brace opened at the first character
\* of v, or 0 when there is none.
RECURSIVE ClosingIndex(_, _, _)
ClosingIndex(v, k, depth) ==
    IF k > Len(v) THEN 0
    ELSE IF v[k] = "{" THEN ClosingIndex(v, k + 1, depth + 1)
    ELSE IF v[k] = "}"
         THEN IF depth = 1 THEN k ELSE ClosingIndex(v, k + 1, depth - 1)
    ELSE ClosingIndex(v, k + 1, depth)

\* The first and last character of v are one pair of matching braces.
SurroundingPair(v) ==
    /\ v # <<>>
    /\ v[1] = "{"
    /\ ClosingIndex(v, 1, 0) = Len(v)

\* C20: strip_braces trims the value and removes its first and last
\* character only when they are a single pair of matching surrounding
\* braces; a trimmed value whose opening brace is closed before the end, or
\* that has no surrounding braces, is returned as it is.
C20_StripsSinglePairOnly ==
    spc = "returned" =>
        LET v == Strip(sValue)
            surrounded == v # <<>> /\ v[1] = "{" /\ v[Len(v)] = "}"
        IN  /\ SurroundingPair(v) => sResult = Inner(v)
            /\ (surrounded /\ ClosingIndex(v, 1, 0) \in 1..(Len(v) - 1))
                  => sResult = v
            /\ ~surrounded => sResult = v


\* The step is build_tex reporting the unit in hand as built.
CountsUnit ==
    /\ successful_builds' = successful_builds + 1
    /\ outcome'[Unit] = "succeeded"

\* C21: build_tex reports a target as built, and counts it in the X of
\* "Built X/Y", only when its compiler invocation succeeded; a target whose
\* invocation exited nonzero or could not be started is reported as failed
\* and is not counted.
C21_CountedOnlySucceeded ==
    [][(command = "build_tex" /\ pc \in {"tbuilt", "texcept"})
          => /\ CountsUnit => exitCode = "zero"
             /\ exitCode \in {"nonzero", "notfound", "oserror"}
                   => (outcome'[Unit] = "failed"
                       /\ successful_builds' = successful_builds)]_vars

\* The selections whose subprocess has ended and whose code was examined.
Examined ==
    IF rpc \in {"wait", "check"} THEN Len(rStarted) - 1 ELSE Len(rStarted)

\* A build of the example was attempted and left no PDF in the output
\* directory, or build.py rejected the name.
FailsToBuild(u) ==
    u \in dashed \/ UnitOutcome(u, FALSE) \in {"failed", "raised"}

\* C22: when a selected example fails to build, run_builds reports it as
\* failed and stops with a nonzero exit status before any later selection
\* is built.
C22_FailedBuildStops ==
    \A j \in 1..Examined :
        FailsToBuild(rStarted[j])
            => /\ rStarted[j] \in rReported
               /\ rExit # NoExit
               /\ rExit # 0
               /\ Len(rStarted) = j

\* C23: run_builds builds the selections one at a time in the given order;
\* as soon as a subprocess returns a nonzero code it exits with exactly that
\* code and starts no later selection; an empty selection starts no build.
C23_InOrderStopAtFirstNonzero ==
    /\ Len(rStarted) <= Len(rSelections)
    /\ rStarted = SubSeq(rSelections, 1, Len(rStarted))
    /\ Len(rStarted) - Len(rCodes) \in {0, 1}
    /\ \A j \in 1..Len(rCodes) :
           rCodes[j] # 0
               => /\ Len(rStarted) = j
                  /\ j <= Examined => rExit = rCodes[j]
    /\ rExit # NoExit => rpc = "exited" /\ rCodes[Len(rCodes)] # 0
    /\ rpc = "done" => rExit = NoExit /\ Len(rStarted) = Len(rSelections)
    /\ rSelections = <<>> => rStarted = <<>>

\* The second of three selections was rejected by build.py's argument
\* parser: run_builds has exited with its code and the third was not started.
C23_Witness ==
    /\ Len(rSelections) = 3
    /\ rStarted = SubSeq(rSelections, 1, 2)
    /\ rCodes = <<ExitOk, ExitUsage>>
    /\ rExit = ExitUsage
    /\ rpc = "exited"

\* The tokens of the line in hand that parse_selection looks at: the pieces
\* between the separators, stripped, the blank ones left out.
Tokens ==
    LET pieces == SplitComma(ReplaceSemi(Strip(selection)))
    IN  SelectSeq([k \in 1..Len(pieces) |-> Strip(pieces[k])],
                  LAMBDA t : t # <<>>)

\* The token is a numeral of an index into the names.
ValidIndex(t) ==
    /\ \A k \in 1..Len(t) : t[k] \in {"0", "1", "2"}
    /\ \E x \in 1..Len(names) :
           \E z \in 0..(Len(t) - 1) :
               /\ \A k \in 1..z : t[k] = "0"
               /\ SubSeq(t, z + 1, Len(t)) = <<CASE x = 1 -> "1" [] x = 2 -> "2"
                                               [] OTHER -> "none">>

\* The index a valid token denotes.
IndexOf(t) == IF t[Len(t)] = "1" THEN 1 ELSE 2

\* Where name x first occurs among the tokens.
FirstAt(x) == CHOOSE k \in 1..Len(Tokens) :
                  /\ IndexOf(Tokens[k]) = x
                  /\ \A j \in 1..(k - 1) : IndexOf(Tokens[j]) # x

\* C24: for a selection of valid indices parse_selection returns the names
\* at those indices in order of first occurrence, none repeated, all from
\* the list offered; a blank selection gives the empty list and "*" gives
\* all the names in listed order.
C24_NamesInFirstOccurrenceOrder ==
    mpc \in {"parsed", "builds"}
        => /\ Strip(selection) = <<>> => ~raised /\ chosen = <<>>
           /\ Strip(selection) = <<"*">> => ~raised /\ chosen = names
           /\ (/\ Strip(selection) # <<"*">>
               /\ \A k \in 1..Len(Tokens) : ValidIndex(Tokens[k]))
                 => /\ ~raised
                    /\ \A a, b \in 1..Len(chosen) :
                           chosen[a] = chosen[b] => a = b
                    /\ \A a \in 1..Len(chosen) :
                           \E k \in 1..Len(names) : names[k] = chosen[a]
                    /\ {chosen[a] : a \in 1..Len(chosen)}
                           = {names[IndexOf(Tokens[k])] : k \in 1..Len(Tokens)}
                    /\ \A a, b \in 1..Len(chosen) :
                           a < b => FirstAt(chosen[a]) < FirstAt(chosen[b])

\* "2,1,2" with two names on offer: the second name, then the first.
C24_Witness ==
    /\ mpc = "builds"
    /\ Len(names) = 2
    /\ selection = <<"2", ",", "1", ",", "2">>
    /\ chosen = <<2, 1>>

\* C25: a token that is not an integer, or is outside 1..len(names), makes
\* parse_selection raise ValueError with no partial result, and the
\* selector's main exit with status 2 without calling run_builds, also when
\* earlier tokens were valid.
C25_BadTokenExitsTwo ==
    (/\ mpc \in {"parsed", "builds", "exited"}
     /\ names # <<>>
     /\ mExit # ExitInterrupted
     /\ Strip(selection) # <<"*">>
     /\ \E k \in 1..Len(Tokens) : ~ValidIndex(Tokens[k]))
        => /\ raised
           /\ chosen = <<>>
           /\ ~buildsCalled
           /\ mpc # "builds"
           /\ mpc = "exited" => mExit = ExitBadSelection

\* "1,0": the first token is valid, the second is below the range.
C25_Witness ==
    /\ mpc = "exited"
    /\ mExit = ExitBadSelection
    /\ selection = <<"1", ",", "0">>
    /\ Len(names) = 2
    /\ ~buildsCalled

\* The unit in hand has no directory, or its directory has no main.tex.
UnitMissing ==
    /\ InExample
    /\ pc = "loop"
    /\ i <= Len(files)
    /\ kind[Unit] \in {"nodir", "notex"}

C26_SkipStep ==
    UnitMissing
        => /\ pc' = "loop"
           /\ i' = i + 1
           /\ outcome'[Unit] = "skipped"
           /\ procs' = procs
           /\ exitCode' = exitCode
           /\ cacheDirs' = cacheDirs
           /\ outDir' = outDir
           /\ cwd' = cwd
           /\ successful_builds' = successful_builds
           /\ progress_bar' = IF UseProgress(files, verbose)
                              THEN [progress_bar EXCEPT !.current = @ + 1]
                              ELSE progress_bar

C26_Skipped ==
    InExample
        => /\ \A u \in Names :
                 kind[u] \in {"nodir", "notex"}
                     => /\ outcome[u] \in {"none", "skipped"}
                        /\ u \notin procs
                        /\ u \notin cacheDirs
                        /\ u \notin outDir
           /\ successful_builds
                 <= Cardinality({u \in Range(files) :
                                     kind[u] \notin {"nodir", "notex"}})
           /\ tally # NoTally => tally[2] = Len(files)

\* C26: in build_example a unit whose directory does not exist, or has no
\* main.tex, is skipped: no compiler is invoked for it, no cache directory
\* is created, nothing is written to the output directory; it is never
\* counted as succeeded, but it is counted in the denominator of the tally
\* and advances the progress count by one.
C26_MissingUnitSkipped == [](C26_Skipped) /\ [][C26_SkipStep]_vars

\* A run over a unit without directory and a unit without main.tex only:
\* the bar was advanced twice and the tally reads 0/2.
C26_Witness ==
    /\ InExample
    /\ pc = "done"
    /\ Len(files) = 2
    /\ kind[files[1]] = "nodir"
    /\ kind[files[2]] = "notex"
    /\ progress_bar.made
    /\ progress_bar.current = 2
    /\ tally = Tally(0, files)
    /\ procs = {} /\ cacheDirs = {} /\ outDir = {}

\* The call is a clean that returned normally, made for the same module
\* directory and with the same environment as call c.
CleanFor(d, c) ==
    /\ d.cmd = "clean"
    /\ d.rc = "zero"
    /\ d.cwd = c.cwd
    /\ d.env = c.env

\* C27: in run_module_test every mode's build is preceded by a full clean of
\* the same module directory with the same environment; the markers are
\* checked only after the build returned exit 0; main returns 0 and prints
\* the summary only if every module passed every mode; the first failing
\* clean, build, missing log or missing marker ends the run with an
\* exception.
C27_CleanBuildCheck ==
    /\ \A j \in 1..Len(tCalls) :
          /\ tCalls[j].cmd = "build"
                => j > 1 /\ CleanFor(tCalls[j - 1], tCalls[j])
          /\ tCalls[j].rc # "zero"
                => /\ j = Len(tCalls)
                   /\ tpc = "raised"
                   /\ tExc \in {"RuntimeError", "TimeoutExpired"}
    /\ tpc \in {"log", "markers"}
          => /\ tCalls # <<>>
             /\ tCalls[Len(tCalls)].cmd = "build"
             /\ tCalls[Len(tCalls)].rc = "zero"
             /\ tCalls[Len(tCalls)].cwd = tModule
    /\ \A m \in tResults :
          \E j \in 1..Len(tCalls) :
              /\ tCalls[j].cmd = "build"
              /\ tCalls[j].rc = "zero"
              /\ tCalls[j].cwd = tModule
    /\ (tPrinted \/ tReturn = 0)
          => /\ tPrinted /\ tReturn = 0
             /\ tExc = "none"
             /\ Len(matrix_summary) = Len(TestMatrix)
             /\ \A m \in 1..Len(TestMatrix) :
                    matrix_summary[m] = Range(TestMatrix[m])
    /\ tExc # "none"
          => /\ tpc = "raised"
             /\ ~tPrinted
             /\ tReturn = NoExit
             /\ TMode \notin tResults
             /\ Len(matrix_summary) = tModule - 1

\* The second module's build for "ultra" failed after its "dev" passed: the
\* run ended there with RuntimeError, the summary holding the first module.
C27_Witness ==
    /\ tModule = 2
    /\ tk = 2
    /\ tpc = "raised"
    /\ tExc = "RuntimeError"
    /\ tResults = {"dev"}
    /\ Len(matrix_summary) = 1
    /\ tCalls[Len(tCalls)].cmd = "build"
    /\ tCalls[Len(tCalls)].rc = "nonzero"
    /\ Len(tCalls) = 10

====
